---------------------------- MODULE Spec2Model ----------------------------
(***************************************************************************)
(* CivicIndia: the page components (ReportNow, TrackReport, Admin,         *)
(* Education, Leaderboard) as state machines over a shared backend          *)
(* (tables reports, user_quiz_progress, profiles, user_badges and the       *)
(* report-images bucket, which the pages write and never read).              *)
(*                                                                           *)
(* Every browser session s holds one mounted page, page[s], and the React   *)
(* state of that page.  An async handler is split at its awaits: the part   *)
(* up to the await is one action, the continuation after the response is    *)
(* another, and the closure it captured is kept in the page record.         *)
(***************************************************************************)
EXTENDS Integers, Sequences, FiniteSets, TLC

(***************************************************************************)
(* Bounds of the model.                                                     *)
(***************************************************************************)
MaxFiles == 6        \* files a session can pick in all
MaxLoads == 2        \* FileReader loads that complete in a session
MaxReports == 1      \* rows the reports table can hold
MaxFetches == 1      \* fetchData runs in flight in a session
MaxAnswers == 2      \* handleAnswer inserts in flight in a session
MaxProgress == 2     \* rows the user_quiz_progress table can hold
MaxSeeds == 1        \* reports in the table when a session opens
MaxListed == 2       \* reports in the table when an admin session that only lists them opens
MaxUpdates == 1      \* admin updates issued by a session
MaxSearches == 1     \* searchReport calls of a session awaiting their query
MaxMessages == 1     \* rows the contact_messages table can hold
MaxEdits == 4        \* edits of the contact form's fields in a session
MaxLocates == 2      \* getLocation requests started by a session

(***************************************************************************)
(* Program constants.                                                       *)
(***************************************************************************)
MaxImages == 5       \* slice(0, 5 - images.length)

Sessions == {"s1", "s2"}
Users == {"u1", "u2"}
Admins == {"u2"}
\* who signs in where: s1 is a citizen's browser, s2 is shared
SignIns(s) == IF s = "s1" THEN {"u1"} ELSE Users
NoUser == "none"
Null == "null"

Categories == {"garbage", "pothole", "streetlight", "traffic", "vandalism",
               "water_supply", "drainage", "other"}
Severities == {"low", "medium", "high", "critical"}
Statuses == {"submitted", "in_review", "assigned", "in_progress", "resolved",
             "rejected"}

\* The values the model types or selects into the forms.
PickedCategories == {"garbage"}
Texts == {"", "a"}

(***************************************************************************)
(* Sequence helpers (Array.prototype.filter, slice, findIndex).             *)
(***************************************************************************)
RECURSIVE FilterIdx(_, _, _)
\* seq.filter((_, i) => i !== index), index counted from 1 here
FilterIdx(seq, index, i) ==
  IF i > Len(seq) THEN <<>>
  ELSE IF i = index THEN FilterIdx(seq, index, i + 1)
       ELSE <<seq[i]>> \o FilterIdx(seq, index, i + 1)

\* seq.slice(0, n)
Slice(seq, n) == IF n <= 0 THEN <<>> ELSE SubSeq(seq, 1, IF n < Len(seq) THEN n ELSE Len(seq))

Range(seq) == {seq[i] : i \in 1..Len(seq)}

VARIABLES
  auth,        \* useAuth() of each session: loading, user, isAdmin
  page,        \* the route mounted in each session
  rn,          \* ReportNow component state
  edu,         \* Education component state
  lb,          \* Leaderboard component state
  adm,         \* Admin component state
  trk,         \* TrackReport component state
  ct,          \* Contact component state
  reports,     \* backend table reports, in insertion (created_at) order
  progress,    \* backend table user_quiz_progress, in insertion order
  profiles,    \* backend table profiles
  messages,    \* backend table contact_messages, in insertion order
  badges,      \* backend table badges (the catalog)
  user_badges, \* backend table user_badges (who earned which badge)
  last         \* the handler step taken last: session, op, outcome, toasts

vars == <<auth, page, rn, edu, lb, adm, trk, ct, reports, progress, profiles, messages,
          badges, user_badges, last>>

(***************************************************************************)
(* useAuth (the hook is outside src/): loading until the session is known,  *)
(* then the user and whether the user has the admin role.                   *)
(***************************************************************************)
AuthLoading == [loading |-> TRUE, user |-> NoUser, isAdmin |-> FALSE]
AuthOf(u) == [loading |-> FALSE, user |-> u, isAdmin |-> u \in Admins]
AuthStates == {AuthLoading} \cup {AuthOf(u) : u \in Users \cup {NoUser}}

\* The record of a handler step: who ran what, how it ended, what it toasted,
\* and what the step saw (its inputs and the backend's answers).
StepInfo(s, op, outcome, toasts, info) ==
  [session |-> s, op |-> op, outcome |-> outcome, toasts |-> toasts, info |-> info]

Step(s, op, outcome, toasts) == StepInfo(s, op, outcome, toasts, <<>>)

(***************************************************************************)
(* ReportNow (src/unnamed/part_002)                                         *)
(***************************************************************************)
\* what the ReportNow page neither reads nor writes
others == <<edu, lb, adm, trk, ct, progress, profiles, messages,
            badges, user_badges>>

EmptyForm ==
  [category |-> "", severity |-> "medium", title |-> "", description |-> "",
   address |-> "", city |-> "", state |-> "", pincode |-> "",
   latitude |-> Null, longitude |-> Null]

\* The closure of a running handleSubmit: where it awaits, the images still to
\* upload, the URLs pushed so far, and the formData and user it captured.
\* selected and results are the record of the run: the images it started with
\* and the bucket's answer to each upload.
\* geolocation: whether the browser has navigator.geolocation.  locating: where
\* a running getLocation waits ("position", "geocode"), located: the requests
\* the session has started.
NoSubmit == [pc |-> "idle", queue |-> <<>>, imageUrls |-> <<>>,
             form |-> EmptyForm, user |-> NoUser,
             selected |-> <<>>, results |-> <<>>]

ReportNowInit ==
  [formData |-> EmptyForm, images |-> <<>>, imagePreviewUrls |-> <<>>,
   reading |-> {}, picked |-> 0, loads |-> 0,
   loading |-> FALSE, gettingLocation |-> FALSE, submitted |-> FALSE,
   reportNumber |-> "", submit |-> NoSubmit,
   geolocation |-> TRUE, locating |-> "idle", located |-> 0]

\* The form is on screen: not the auth spinner, not the success card.
ReportFormShown(s) ==
  /\ page[s] = "report"
  /\ ~auth[s].loading
  /\ ~rn[s].submitted

\* The user edits the form between submissions.  A running handleSubmit reads
\* only what it captured at the click and writes the component's state only
\* when it ends, so edits made while it runs commute with its steps and are
\* left out.
\* Once the reports table holds MaxReports rows the model stops filling in
\* further reports.
SubmitsInFlight == Cardinality({s \in Sessions : rn[s].submit.pc # "idle"})

TableHasRoom == Len(reports) + SubmitsInFlight < MaxReports

FormIdle(s) == ReportFormShown(s) /\ ~rn[s].loading /\ TableHasRoom

\* useEffect(..., [user, authLoading]): no user once auth has loaded
ReportNowAuthEffect(s, a) ==
  IF ~a.loading /\ a.user = NoUser
  THEN /\ page' = [page EXCEPT ![s] = "auth"]
       /\ last' = Step(s, "ReportNow.effect", "redirect", <<"Authentication required">>)
  ELSE /\ page' = page
       /\ last' = Step(s, "ReportNow.effect", "stay", <<>>)

ReportNowAuthChange(s) ==
  \E a \in {AuthOf(u) : u \in SignIns(s) \cup {NoUser}} :
    /\ page[s] = "report"
    /\ a # auth[s]
    /\ auth[s].loading \/ a.user = NoUser   \* session resolves, or signs out
    /\ auth' = [auth EXCEPT ![s] = a]
    /\ ReportNowAuthEffect(s, a)
    /\ UNCHANGED <<rn, reports, others>>

handleChange(s) ==
  \E name \in {"title", "description"}, value \in Texts :
    /\ FormIdle(s)
    /\ rn[s].formData[name] # value
    /\ rn' = [rn EXCEPT ![s].formData[name] = value]
    /\ last' = Step(s, "input", "ok", <<>>)
    /\ UNCHANGED <<auth, page, reports, others>>

handleSelectChange(s) ==
  \E value \in PickedCategories :
    /\ FormIdle(s)
    /\ rn[s].formData.category # value
    /\ rn' = [rn EXCEPT ![s].formData.category = value]
    /\ last' = Step(s, "input", "ok", <<>>)
    /\ UNCHANGED <<auth, page, reports, others>>

\* The files of one selection: the next n files the session has not picked yet.
FilesPicked(s, n) == [i \in 1..n |-> rn[s].picked + i]

NewFiles(files, images) == Slice(files, MaxImages - Len(images))

handleImageUpload(s) ==
  \E n \in 1..(MaxFiles - rn[s].picked) :
    /\ FormIdle(s)
    /\ Len(rn[s].images) < MaxImages          \* input disabled at 5
    /\ LET newFiles == NewFiles(FilesPicked(s, n), rn[s].images)
       IN rn' = [rn EXCEPT ![s].images = @ \o newFiles,
                           ![s].reading = @ \cup Range(newFiles),
                           ![s].picked = @ + n]
    /\ last' = Step(s, "input", "ok", <<>>)
    /\ UNCHANGED <<auth, page, reports, others>>

\* reader.onload of one file whose read is pending
PreviewLoaded(s) ==
  \E f \in rn[s].reading :
    /\ page[s] = "report"
    /\ ~rn[s].loading
    /\ rn[s].loads < MaxLoads
    /\ rn' = [rn EXCEPT ![s].imagePreviewUrls = Append(@, f),
                        ![s].reading = @ \ {f},
                        ![s].loads = @ + 1]
    /\ last' = Step(s, "input", "ok", <<>>)
    /\ UNCHANGED <<auth, page, reports, others>>

removeImage(s) ==
  \E index \in 1..Len(rn[s].imagePreviewUrls) :
    /\ FormIdle(s)
    /\ rn' = [rn EXCEPT ![s].images = FilterIdx(@, index, 1),
                        ![s].imagePreviewUrls = FilterIdx(@, index, 1)]
    /\ last' = Step(s, "input", "ok", <<>>)
    /\ UNCHANGED <<auth, page, reports, others>>

\* a || b of JavaScript on strings that may be undefined
OrElse(x, y) == IF x \in {Null, ""} THEN y ELSE x

\* position.coords of the success callback
Positions == {[latitude |-> "lat1", longitude |-> "lon1"],
              [latitude |-> "lat2", longitude |-> "lon2"]}

\* What the reverse-geocoding request gives: failed when fetch or
\* response.json() throws, else the parsed body.  address is <<>> when the body
\* has none (the service's error body), else the one record.
NoAddress == [failed |-> FALSE, display_name |-> Null, address |-> <<>>]

GeocodeAnswers ==
  {[NoAddress EXCEPT !.failed = TRUE],
   NoAddress,
   [NoAddress EXCEPT !.display_name = "d",
      !.address = <<[city |-> "c", town |-> Null, village |-> Null,
                     state |-> "st", postcode |-> "pc"]>>],
   [NoAddress EXCEPT
      !.address = <<[city |-> Null, town |-> "t", village |-> Null,
                     state |-> Null, postcode |-> Null]>>]}

\* (mutant) a failed geocoding request drops the detected coordinates
AfterGeocodeDroppingCoordinates(prev, answer) ==
  IF answer.failed THEN [prev EXCEPT !.latitude = Null, !.longitude = Null]
  ELSE IF answer.address = <<>> THEN prev
  ELSE LET a == answer.address[1]
       IN [prev EXCEPT
             !.address = OrElse(answer.display_name, ""),
             !.city = OrElse(a.city, OrElse(a.town, OrElse(a.village, ""))),
             !.state = OrElse(a.state, ""),
             !.pincode = OrElse(a.postcode, "")]

\* formData after the try block of the success callback: the address fields
\* are written if (data.address), and not at all when the request threw
AfterGeocode(prev, answer) ==
  IF answer.failed \/ answer.address = <<>> THEN prev
  ELSE LET a == answer.address[1]
       IN [prev EXCEPT
             !.address = OrElse(answer.display_name, ""),
             !.city = OrElse(a.city, OrElse(a.town, OrElse(a.village, ""))),
             !.state = OrElse(a.state, ""),
             !.pincode = OrElse(a.postcode, "")]

\* getLocation up to getCurrentPosition, or to its return when the browser has
\* no geolocation; the button is disabled while gettingLocation
getLocation(s) ==
  /\ ReportFormShown(s)
  /\ ~rn[s].gettingLocation
  /\ IF ~rn[s].geolocation
     THEN /\ last' = Step(s, "getLocation", "unsupported", <<"Geolocation not supported">>)
          /\ UNCHANGED rn
     ELSE /\ rn[s].located < MaxLocates
          /\ rn' = [rn EXCEPT ![s].gettingLocation = TRUE,
                              ![s].locating = "position",
                              ![s].located = @ + 1]
          /\ last' = Step(s, "getLocation", "started", <<>>)
  /\ UNCHANGED <<auth, page, reports, others>>

\* getCurrentPosition calls back: the success callback up to its await of the
\* geocoder, or the error callback
PositionReturns(s) ==
  \E ok \in BOOLEAN, coords \in Positions :
    /\ page[s] = "report"
    /\ rn[s].locating = "position"
    /\ IF ok
       THEN /\ rn' = [rn EXCEPT ![s].formData.latitude = coords.latitude,
                                ![s].formData.longitude = coords.longitude,
                                ![s].locating = "geocode"]
            /\ last' = StepInfo(s, "getLocation.position", "ok", <<>>, coords)
       ELSE /\ rn' = [rn EXCEPT ![s].gettingLocation = FALSE,
                                ![s].locating = "idle"]
            /\ last' = StepInfo(s, "getLocation.position", "error",
                                <<"Location error">>, coords)
    /\ UNCHANGED <<auth, page, reports, others>>

\* the geocoder answers or the request throws: the rest of the success callback
GeocodeReturns(s) ==
  \E answer \in GeocodeAnswers :
    /\ page[s] = "report"
    /\ rn[s].locating = "geocode"
    /\ rn' = [rn EXCEPT ![s].formData = AfterGeocode(@, answer),
                        ![s].gettingLocation = FALSE,
                        ![s].locating = "idle"]
    /\ last' = StepInfo(s, "getLocation.geocode",
                        IF answer.failed THEN "error" ELSE "ok",
                        <<"Location detected">>, answer)
    /\ UNCHANGED <<auth, page, reports, others>>

\* handleChange of the Address and City inputs
handleChangeAddress(s) ==
  \E name \in {"address", "city"}, value \in Texts :
    /\ FormIdle(s)
    /\ rn[s].formData[name] # value
    /\ rn' = [rn EXCEPT ![s].formData[name] = value]
    /\ last' = Step(s, "input", "ok", <<>>)
    /\ UNCHANGED <<auth, page, reports, others>>

(***************************************************************************)
(* Backend: the reports table.  The row defaults and the tracking number    *)
(* are set by the database (schema and trigger are outside src/).           *)
(***************************************************************************)
ReportNumber(id) == <<"CIV", id>>

ReportDefaults ==
  [status |-> "submitted", assigned_to |-> Null, authority_remarks |-> Null,
   resolved_at |-> Null]

\* The row the table holds after insert([payload]): the payload's columns, the
\* defaults for the columns it leaves out, id and report_number by the database.
InsertedRow(payload, id) ==
  [c \in (DOMAIN payload) \cup (DOMAIN ReportDefaults) \cup {"id"} |->
     IF c = "id" THEN id
     ELSE IF c = "report_number" THEN ReportNumber(id)
     ELSE IF c \in DOMAIN payload THEN payload[c]
     ELSE ReportDefaults[c]]

\* supabase.storage.from('report-images').getPublicUrl(fileName), with
\* fileName = `${user.id}/${Date.now()}-${image.name}`
PublicUrl(user, file) == <<"report-images", user, file>>

\* (mutant) the URL is pushed whether or not the upload failed
PushUrlAlways(imageUrls, user, file, ok) == Append(imageUrls, PublicUrl(user, file))

\* if (!uploadError) imageUrls.push(publicUrl)
PushUrl(imageUrls, user, file, ok) ==
  IF ok THEN Append(imageUrls, PublicUrl(user, file)) ELSE imageUrls

\* (mutant) the row is inserted without an owner
ReportInsertAnonymous(user, form, imageUrls) ==
  [user_id |-> Null, report_number |-> "TEMP",
   category |-> form.category, severity |-> form.severity,
   title |-> form.title, description |-> form.description,
   address |-> form.address, city |-> form.city, state |-> form.state,
   pincode |-> form.pincode, latitude |-> form.latitude,
   longitude |-> form.longitude, image_urls |-> imageUrls]

\* the object passed to supabase.from('reports').insert([...])
ReportInsert(user, form, imageUrls) ==
  [user_id |-> user, report_number |-> "TEMP",
   category |-> form.category, severity |-> form.severity,
   title |-> form.title, description |-> form.description,
   address |-> form.address, city |-> form.city, state |-> form.state,
   pincode |-> form.pincode, latitude |-> form.latitude,
   longitude |-> form.longitude, image_urls |-> imageUrls]

\* (mutant) only the category is required
MissingInformationCategory(form) == form.category = ""

\* if (!formData.category || !formData.title || !formData.description)
MissingInformation(form) ==
  form.category = "" \/ form.title = "" \/ form.description = ""

\* handleSubmit up to its first await (the first upload, or the insert when no
\* image is selected)
handleSubmit(s) ==
  /\ FormIdle(s)                             \* submit button disabled while loading
  /\ IF MissingInformation(rn[s].formData)
     THEN /\ last' = Step(s, "handleSubmit", "missing", <<"Missing information">>)
          /\ UNCHANGED rn
     ELSE /\ rn' = [rn EXCEPT
                ![s].loading = TRUE,
                ![s].submit = [pc |-> IF rn[s].images = <<>> THEN "insert" ELSE "upload",
                               queue |-> rn[s].images, imageUrls |-> <<>>,
                               form |-> rn[s].formData, user |-> auth[s].user,
                               selected |-> rn[s].images, results |-> <<>>]]
          /\ last' = Step(s, "handleSubmit", "started", <<>>)
  /\ UNCHANGED <<auth, page, reports, others>>

\* (mutant) a failed upload ends the submission
AfterUploadAborting(rest, ok) ==
  IF ~ok THEN "idle" ELSE IF rest = <<>> THEN "insert" ELSE "upload"

\* where handleSubmit awaits after an upload has returned: the for loop goes
\* on to the next image whatever the upload's result, and to the insert after
\* the last
AfterUpload(rest, ok) == IF rest = <<>> THEN "insert" ELSE "upload"

\* one turn of the upload loop: the awaited upload of the next image returns
UploadReturns(s) ==
  \E ok \in BOOLEAN :
    LET sub == rn[s].submit
        image == Head(sub.queue)
        rest == Tail(sub.queue)
    IN /\ sub.pc = "upload"
       /\ rn' = [rn EXCEPT
             ![s].submit.queue = rest,
             ![s].submit.imageUrls = PushUrl(@, sub.user, image, ok),
             ![s].submit.results = Append(@, [file |-> image, ok |-> ok]),
             ![s].submit.pc = AfterUpload(rest, ok)]
       /\ last' = Step(s, "handleSubmit.upload", IF ok THEN "ok" ELSE "error", <<>>)
       /\ UNCHANGED <<auth, page, reports, others>>

\* the awaited insert returns: the row and its tracking number, or an error
InsertReturns(s) ==
  \E ok \in BOOLEAN :
    LET sub == rn[s].submit
        id == Len(reports) + 1
        row == InsertedRow(ReportInsert(sub.user, sub.form, sub.imageUrls), id)
    IN /\ sub.pc = "insert"
       /\ IF ok
          THEN /\ reports' = Append(reports, row)
               /\ rn' = [rn EXCEPT ![s].reportNumber = row.report_number,
                                   ![s].submitted = TRUE,
                                   ![s].loading = FALSE,
                                   ![s].submit = NoSubmit]
               /\ last' = StepInfo(s, "handleSubmit.insert", "ok", <<"Report submitted!">>,
                                   [id |-> id, selected |-> sub.selected,
                                    results |-> sub.results, user |-> sub.user])
          ELSE /\ reports' = reports
               /\ rn' = [rn EXCEPT ![s].loading = FALSE, ![s].submit = NoSubmit]
               /\ last' = Step(s, "handleSubmit.insert", "error", <<"Submission failed">>)
       /\ UNCHANGED <<auth, page, others>>

\* "Submit Another Report" on the success card
SubmitAnother(s) ==
  /\ page[s] = "report"
  /\ ~auth[s].loading
  /\ rn[s].submitted
  /\ rn' = [rn EXCEPT ![s].submitted = FALSE, ![s].reportNumber = "",
                      ![s].formData = EmptyForm, ![s].images = <<>>,
                      ![s].imagePreviewUrls = <<>>]
  /\ last' = Step(s, "SubmitAnother", "ok", <<>>)
  /\ UNCHANGED <<auth, page, reports, others>>

ReportNowNext(s) ==
  \/ ReportNowAuthChange(s)
  \/ handleChange(s)
  \/ handleSelectChange(s)
  \/ handleImageUpload(s)
  \/ PreviewLoaded(s)
  \/ removeImage(s)
  \/ handleSubmit(s)
  \/ UploadReturns(s)
  \/ InsertReturns(s)
  \/ SubmitAnother(s)


(***************************************************************************)
(* Education (src/Education.tsx)                                            *)
(***************************************************************************)
\* The question bank: tables quiz_categories (ordered by name) and quizzes.
\* No page writes them.
QuizCategoryRows == <<[id |-> "c1"], [id |-> "c2"]>>

QuizRows ==
  <<[id |-> "q1", category_id |-> "c1", correct_answer |-> 0],
    [id |-> "q2", category_id |-> "c1", correct_answer |-> 1]>>

AnswerIndexes == {0, 1}

\* what the Education page neither reads nor writes
eduOthers == <<rn, lb, adm, trk, ct, reports, profiles, messages,
               badges, user_badges>>

RECURSIVE SelectSeq2(_, _)
\* Array.prototype.filter with the predicate given as the set of kept elements
SelectSeq2(seq, keep) ==
  IF seq = <<>> THEN <<>>
  ELSE (IF Head(seq) \in keep THEN <<Head(seq)>> ELSE <<>>) \o SelectSeq2(Tail(seq), keep)

\* quizzes.filter(q => q.category_id === categoryId)
getCategoryQuizzes(quizzes, categoryId) ==
  SelectSeq2(quizzes, {q \in Range(quizzes) : q.category_id = categoryId})

getCategoryProgress(quizzes, userProgress, categoryId) ==
  LET categoryQuizzes == getCategoryQuizzes(quizzes, categoryId)
      completedQuizzes ==
        SelectSeq2(userProgress,
                   {p \in Range(userProgress) :
                      \E q \in Range(categoryQuizzes) : q.id = p.quiz_id})
  IN [completed |-> Len(completedQuizzes), total |-> Len(categoryQuizzes),
      correct |-> Len(SelectSeq2(completedQuizzes,
                                 {p \in Range(completedQuizzes) : p.is_correct}))]

\* select('quiz_id, is_correct').eq('user_id', user.id)
RECURSIVE ProgressOf(_, _)
ProgressOf(rows, user) ==
  IF rows = <<>> THEN <<>>
  ELSE (IF Head(rows).user_id = user
        THEN <<[quiz_id |-> Head(rows).quiz_id, is_correct |-> Head(rows).is_correct]>>
        ELSE <<>>) \o ProgressOf(Tail(rows), user)

\* selectedAnswer is number | null; the null is written as the number that is
\* the index of no option
NoAnswer == -1

\* fetches: the running fetchData calls, each with the await it is at and the
\* user it captured.  answers: the running handleAnswer calls awaiting their
\* insert, each with the record it will append.  fetchedFor: the user whose
\* progress the page has fetched (a record of the run, not component state).
EducationInit ==
  [categories |-> <<>>, quizzes |-> <<>>, userProgress |-> <<>>,
   selectedCategory |-> Null, currentQuizIndex |-> 0, selectedAnswer |-> NoAnswer,
   showResult |-> FALSE, loading |-> TRUE, fetches |-> <<>>, answers |-> <<>>,
   fetchedFor |-> NoUser]

\* fetchData up to its first await
StartFetchData(e, user) ==
  [e EXCEPT !.loading = TRUE,
            !.fetches = Append(@, [pc |-> "categories", user |-> user])]

\* the page as mounted: useEffect has called fetchData with the user of the
\* first render
EducationMounted(user) == StartFetchData(EducationInit, user)

\* useEffect(() => { fetchData() }, [user])
EducationAuthChange(s) ==
  \E a \in {AuthOf(u) : u \in SignIns(s) \cup {NoUser}} :
    /\ page[s] = "education"
    /\ a # auth[s]
    /\ auth[s].loading \/ a.user = NoUser
    /\ auth' = [auth EXCEPT ![s] = a]
    /\ IF a.user # auth[s].user
       THEN /\ Len(edu[s].fetches) < MaxFetches
            /\ edu' = [edu EXCEPT ![s] =
                  StartFetchData([@ EXCEPT !.fetchedFor = NoUser], a.user)]
       ELSE edu' = edu
    /\ last' = Step(s, "Education.effect", "ok", <<>>)
    /\ UNCHANGED <<page, progress, eduOthers>>

\* an awaited query of a running fetchData returns, with data or with an error
\* (data null); the supabase client does not throw
FetchDataReturns(s) ==
  \E i \in 1..Len(edu[s].fetches), ok \in BOOLEAN :
    LET f == edu[s].fetches[i]
        rest == FilterIdx(edu[s].fetches, i, 1)
        goOn(pc) == [edu[s].fetches EXCEPT ![i].pc = pc]
    IN /\ page[s] = "education"
       /\ edu' = [edu EXCEPT ![s] =
            CASE f.pc = "categories" ->
                   [@ EXCEPT !.categories = IF ok THEN QuizCategoryRows ELSE <<>>,
                             !.fetches = goOn("quizzes")]
              [] f.pc = "quizzes" ->
                   IF f.user # NoUser
                   THEN [@ EXCEPT !.quizzes = IF ok THEN QuizRows ELSE <<>>,
                                  !.fetches = goOn("progress")]
                   ELSE [@ EXCEPT !.quizzes = IF ok THEN QuizRows ELSE <<>>,
                                  !.fetches = rest, !.loading = FALSE]
              [] f.pc = "progress" ->
                   [@ EXCEPT !.userProgress =
                                IF ok THEN ProgressOf(progress, f.user) ELSE <<>>,
                             !.fetchedFor = IF ok /\ f.user = auth[s].user
                                            THEN f.user ELSE @,
                             !.fetches = rest, !.loading = FALSE]]
       /\ last' = Step(s, "fetchData." \o f.pc, IF ok THEN "ok" ELSE "error", <<>>)
       /\ UNCHANGED <<auth, page, progress, eduOthers>>

\* the category cards are on screen
CategoryListShown(s) ==
  page[s] = "education" /\ ~edu[s].loading /\ edu[s].selectedCategory = Null

CurrentQuizzes(s) == getCategoryQuizzes(edu[s].quizzes, edu[s].selectedCategory)

\* a question card is on screen
QuestionShown(s) ==
  /\ page[s] = "education" /\ ~edu[s].loading
  /\ edu[s].selectedCategory # Null
  /\ edu[s].currentQuizIndex < Len(CurrentQuizzes(s))

\* (mutant) starting a category keeps the index of the question shown last
handleStartQuizKeepingIndex(s) ==
  \E c \in Range(edu[s].categories) :
    /\ CategoryListShown(s)
    /\ Len(getCategoryQuizzes(edu[s].quizzes, c.id)) # 0
    /\ edu' = [edu EXCEPT ![s].selectedCategory = c.id,
                          ![s].selectedAnswer = NoAnswer,
                          ![s].showResult = FALSE]
    /\ last' = Step(s, "handleStartQuiz", "ok", <<>>)
    /\ UNCHANGED <<auth, page, progress, eduOthers>>

handleStartQuiz(s) ==
  \E c \in Range(edu[s].categories) :
    /\ CategoryListShown(s)
    /\ Len(getCategoryQuizzes(edu[s].quizzes, c.id)) # 0     \* button disabled
    /\ edu' = [edu EXCEPT ![s].selectedCategory = c.id,
                          ![s].currentQuizIndex = 0,
                          ![s].selectedAnswer = NoAnswer,
                          ![s].showResult = FALSE]
    /\ last' = Step(s, "handleStartQuiz", "ok", <<>>)
    /\ UNCHANGED <<auth, page, progress, eduOthers>>

\* "Exit Quiz" (and "Go Back" of a category without questions)
ExitQuiz(s) ==
  /\ page[s] = "education" /\ ~edu[s].loading
  /\ edu[s].selectedCategory # Null
  /\ edu' = [edu EXCEPT ![s].selectedCategory = Null]
  /\ last' = Step(s, "ExitQuiz", "ok", <<>>)
  /\ UNCHANGED <<auth, page, progress, eduOthers>>

AnswerToast(isCorrect) == IF isCorrect THEN <<"Correct!">> ELSE <<"Incorrect">>

\* (mutant) the check looks at the table
alreadyAnsweredInTable(userProgress, quizId) ==
  \E p \in Range(progress) : p.quiz_id = quizId

\* userProgress.some(p => p.quiz_id === currentQuiz.id)
alreadyAnswered(userProgress, quizId) ==
  \E p \in Range(userProgress) : p.quiz_id = quizId

\* handleAnswer up to its await (the insert), or to its end when it does not
\* insert
handleAnswer(s) ==
  \E answerIndex \in AnswerIndexes :
    LET currentQuiz == CurrentQuizzes(s)[edu[s].currentQuizIndex + 1]
        isCorrect == answerIndex = currentQuiz.correct_answer
        user == auth[s].user
        inserts == user # NoUser /\ ~alreadyAnswered(edu[s].userProgress, currentQuiz.id)
    IN /\ QuestionShown(s)
       /\ ~edu[s].showResult                  \* early return; buttons disabled
       /\ IF inserts
          THEN /\ Len(edu[s].answers) < MaxAnswers
               /\ Len(progress) + Len(edu[s].answers) < MaxProgress
               /\ edu' = [edu EXCEPT
                     ![s].selectedAnswer = answerIndex,
                     ![s].showResult = TRUE,
                     ![s].answers = Append(@, [user_id |-> user,
                                               quiz_id |-> currentQuiz.id,
                                               is_correct |-> isCorrect])]
               /\ last' = Step(s, "handleAnswer", "inserting", <<>>)
          ELSE /\ edu' = [edu EXCEPT ![s].selectedAnswer = answerIndex,
                                     ![s].showResult = TRUE]
               /\ last' = Step(s, "handleAnswer", "no insert", AnswerToast(isCorrect))
       /\ UNCHANGED <<auth, page, progress, eduOthers>>

\* (mutant) a call made while the result is shown selects the new answer
handleAnswerReselecting(s) ==
  \E answerIndex \in AnswerIndexes :
    /\ QuestionShown(s)
    /\ edu[s].showResult
    /\ edu' = [edu EXCEPT ![s].selectedAnswer = answerIndex]
    /\ last' = StepInfo(s, "handleAnswer", "returned", <<>>, answerIndex)
    /\ UNCHANGED <<auth, page, progress, eduOthers>>

\* handleAnswer called while the result is shown: if (showResult) return.  The
\* option buttons are disabled then, so no click makes this call; it is what
\* a call made some other way does.
handleAnswerWhileShown(s) ==
  \E answerIndex \in AnswerIndexes :
    /\ QuestionShown(s)
    /\ edu[s].showResult
    /\ last' = StepInfo(s, "handleAnswer", "returned", <<>>, answerIndex)
    /\ UNCHANGED <<auth, page, edu, progress, eduOthers>>

\* (mutant) a recorded correct answer also adds a point to the user's profile
AnswerInsertReturnsAwarding(s) ==
  \E i \in 1..Len(edu[s].answers), ok \in BOOLEAN :
    LET a == edu[s].answers[i]
    IN /\ progress' = IF ok THEN Append(progress, a) ELSE progress
       /\ profiles' = [k \in 1..Len(profiles) |->
                         IF ok /\ a.is_correct /\ profiles[k].user_id = a.user_id
                         THEN [profiles[k] EXCEPT !.points = @ + 1]
                         ELSE profiles[k]]
       /\ edu' = [edu EXCEPT
             ![s].answers = FilterIdx(@, i, 1),
             ![s].userProgress =
                Append(@, [quiz_id |-> a.quiz_id, is_correct |-> a.is_correct])]
       /\ last' = StepInfo(s, "handleAnswer.insert", IF ok THEN "ok" ELSE "error",
                           AnswerToast(a.is_correct), a)
       /\ UNCHANGED <<auth, page, rn, lb, adm, trk, ct, reports, messages, badges,
                      user_badges>>

\* the awaited insert of a running handleAnswer returns; its result is not
\* looked at, the record is appended to userProgress either way
AnswerInsertReturns(s) ==
  \E i \in 1..Len(edu[s].answers), ok \in BOOLEAN :
    LET a == edu[s].answers[i]
    IN /\ progress' = IF ok THEN Append(progress, a) ELSE progress
       /\ edu' = [edu EXCEPT
             ![s].answers = FilterIdx(@, i, 1),
             ![s].userProgress =
                Append(@, [quiz_id |-> a.quiz_id, is_correct |-> a.is_correct])]
       /\ last' = StepInfo(s, "handleAnswer.insert", IF ok THEN "ok" ELSE "error",
                           AnswerToast(a.is_correct), a)
       /\ UNCHANGED <<auth, page, eduOthers>>

handleNext(s) ==
  /\ QuestionShown(s)
  /\ edu[s].showResult                        \* the button is rendered
  /\ IF edu[s].currentQuizIndex < Len(CurrentQuizzes(s)) - 1
     THEN /\ edu' = [edu EXCEPT ![s].currentQuizIndex = @ + 1,
                                ![s].selectedAnswer = NoAnswer,
                                ![s].showResult = FALSE]
          /\ last' = Step(s, "handleNext", "next", <<>>)
     ELSE /\ Len(edu[s].fetches) < MaxFetches
          /\ edu' = [edu EXCEPT ![s] =
                StartFetchData([@ EXCEPT !.selectedCategory = Null], auth[s].user)]
          /\ last' = Step(s, "handleNext", "finish", <<>>)
  /\ UNCHANGED <<auth, page, progress, eduOthers>>

EducationNext(s) ==
  \/ EducationAuthChange(s)
  \/ FetchDataReturns(s)
  \/ handleStartQuiz(s)
  \/ ExitQuiz(s)
  \/ handleAnswer(s)
  \/ AnswerInsertReturns(s)
  \/ handleNext(s)

(***************************************************************************)
(* Leaderboard (src/unnamed/part_000)                                       *)
(***************************************************************************)
\* .limit(50)
TopN == 50

\* the users that may have a profile; u3 is a citizen who is not signed in in
\* any of the sessions
ProfileUsers == <<"u1", "u2", "u3">>

\* profiles.points is number | null; the null is written as the number that no
\* points total takes
NullPoints == -1

PointValues == {NullPoints, 0, 1, 2}

\* rows of the badges table
BadgeRows ==
  <<[id |-> "b1", name |-> "n1", icon |-> "i1"],
    [id |-> "b2", name |-> "n2", icon |-> "i2"]>>

\* rows of the user_badges table
UserBadgeRows ==
  <<[user_id |-> "u1", badge_id |-> "b1"], [user_id |-> "u1", badge_id |-> "b2"],
    [user_id |-> "u3", badge_id |-> "b1"]>>

\* what the Leaderboard page does not write
lbOthers == <<rn, edu, adm, trk, ct, reports, progress, messages,
              badges, user_badges>>

\* the profiles tables: some of the users have a profile, with any points
RECURSIVE ProfileRows(_, _, _)
ProfileRows(users, have, pts) ==
  IF users = <<>> THEN <<>>
  ELSE (IF Head(users) \in have
        THEN <<[id |-> <<"p", Head(users)>>, user_id |-> Head(users),
                points |-> pts[Head(users)]]>>
        ELSE <<>>) \o ProfileRows(Tail(users), have, pts)

ProfileTables ==
  {ProfileRows(ProfileUsers, have, pts) :
     have \in SUBSET Range(ProfileUsers), pts \in [Range(ProfileUsers) -> PointValues]}

\* ORDER BY points DESC as the database evaluates it: a may stand before b.
\* order('points', {ascending: false}) names no nullsFirst option, and a
\* descending order puts the null points first.
PointsBefore(a, b) == a = NullPoints \/ (b # NullPoints /\ a >= b)

\* the orders in which the query may return the rows: descending by points,
\* rows of equal points in any order
OrderedByPoints(rows) ==
  {[i \in 1..Len(rows) |-> rows[f[i]]] : f \in
     {g \in Permutations(1..Len(rows)) :
        \A i, j \in 1..Len(rows) :
          i < j => PointsBefore(rows[g[i]].points, rows[g[j]].points)}}

\* badgeCountMap[user_id] || 0 over the rows .in('user_id', userIds) returned
BadgeCount(badgeCounts, userId) ==
  Cardinality({i \in 1..Len(badgeCounts) : badgeCounts[i].user_id = userId})

\* select('user_id').in('user_id', userIds)
BadgesIn(userIds) ==
  SelectSeq2(user_badges, {b \in Range(user_badges) : b.user_id \in userIds})

\* data?.map(p => ({...p, badge_count: badgeCountMap[p.user_id] || 0}))
Enriched(data, badgeCounts) ==
  [i \in 1..Len(data) |->
     [id |-> data[i].id, user_id |-> data[i].user_id, points |-> data[i].points,
      badge_count |-> BadgeCount(badgeCounts, data[i].user_id)]]

\* enrichedData.findIndex(p => p.user_id === user.id), 0 for "not found"
\* (positions count from 1 here, so userIndex + 1 of the code is the position)
FindPosition(entries, userId) ==
  IF \E i \in 1..Len(entries) : entries[i].user_id = userId
  THEN CHOOSE i \in 1..Len(entries) :
         /\ entries[i].user_id = userId
         /\ \A j \in 1..(i - 1) : entries[j].user_id # userId
  ELSE 0

\* fetches: the running fetchLeaderboard calls (the await each is at, the user
\* it captured, the profiles it was given); badgeFetches: the running
\* fetchUserBadges calls.  userRank: 0 stands for the null of useState(null);
\* the page tests it by truthiness (userRank ? ... : 'Unranked').
LeaderboardInit ==
  [leaderboard |-> <<>>, userBadges |-> <<>>, loading |-> TRUE,
   userRank |-> 0, userPoints |-> 0, fetches |-> <<>>, badgeFetches |-> <<>>]

\* the effect: fetchLeaderboard() to its first await, and fetchUserBadges() to
\* its await if there is a user
StartLeaderboardEffect(l, user) ==
  [l EXCEPT !.loading = TRUE,
            !.fetches = Append(@, [pc |-> "profiles", user |-> user, data |-> <<>>]),
            !.badgeFetches = IF user # NoUser THEN Append(@, [user |-> user]) ELSE @]

LeaderboardMounted(user) == StartLeaderboardEffect(LeaderboardInit, user)

\* useEffect(() => { fetchLeaderboard(); if (user) fetchUserBadges() }, [user])
LeaderboardAuthChange(s) ==
  \E a \in {AuthOf(u) : u \in SignIns(s) \cup {NoUser}} :
    /\ page[s] = "leaderboard"
    /\ a # auth[s]
    /\ auth[s].loading \/ a.user = NoUser
    /\ auth' = [auth EXCEPT ![s] = a]
    /\ IF a.user # auth[s].user
       THEN /\ Len(lb[s].fetches) < MaxFetches
            /\ Len(lb[s].badgeFetches) < MaxFetches
            /\ lb' = [lb EXCEPT ![s] = StartLeaderboardEffect(@, a.user)]
       ELSE lb' = lb
    /\ last' = Step(s, "Leaderboard.effect", "ok", <<>>)
    /\ UNCHANGED <<page, profiles, lbOthers>>

\* an awaited query of a running fetchLeaderboard returns
FetchLeaderboardReturns(s) ==
  \E i \in 1..Len(lb[s].fetches), ok \in BOOLEAN :
    LET f == lb[s].fetches[i]
        rest == FilterIdx(lb[s].fetches, i, 1)
    IN /\ page[s] = "leaderboard"
       /\ \/ /\ f.pc = "profiles" /\ ok
             /\ \E rows \in OrderedByPoints(profiles) :
                  lb' = [lb EXCEPT ![s].fetches =
                           [@ EXCEPT ![i].pc = "badges",
                                     ![i].data = Slice(rows, TopN)]]
          \/ /\ f.pc = "profiles" /\ ~ok          \* if (error) throw error
             /\ lb' = [lb EXCEPT ![s].fetches = rest, ![s].loading = FALSE]
          \/ /\ f.pc = "badges"
             /\ LET userIds == {f.data[k].user_id : k \in 1..Len(f.data)}
                    badgeCounts == IF ok THEN BadgesIn(userIds) ELSE <<>>
                    enrichedData == Enriched(f.data, badgeCounts)
                    userIndex == IF f.user = NoUser THEN 0
                                 ELSE FindPosition(enrichedData, f.user)
                IN lb' = [lb EXCEPT ![s] =
                       [@ EXCEPT !.leaderboard = enrichedData,
                                 !.userRank = IF userIndex # 0 THEN userIndex ELSE @,
                                 !.userPoints = IF userIndex # 0
                                                THEN enrichedData[userIndex].points ELSE @,
                                 !.fetches = rest, !.loading = FALSE]]
       /\ last' = StepInfo(s, "fetchLeaderboard." \o f.pc,
                           IF ok THEN "ok" ELSE "error", <<>>,
                           [user |-> f.user,
                            userIds |-> {f.data[k].user_id : k \in 1..Len(f.data)}])
       /\ UNCHANGED <<auth, page, profiles, lbOthers>>

\* select('badge_id, badges(name, icon)').eq('user_id', user.id)
BadgesOf(user) ==
  LET rows == SelectSeq2(user_badges, {b \in Range(user_badges) : b.user_id = user})
  IN [i \in 1..Len(rows) |->
        [badge_id |-> rows[i].badge_id,
         badges |-> LET b == CHOOSE b \in Range(badges) : b.id = rows[i].badge_id
                    IN [name |-> b.name, icon |-> b.icon]]]

\* the query of a running fetchUserBadges returns
FetchUserBadgesReturns(s) ==
  \E i \in 1..Len(lb[s].badgeFetches), ok \in BOOLEAN :
    LET f == lb[s].badgeFetches[i]
    IN /\ page[s] = "leaderboard"
       /\ lb' = [lb EXCEPT ![s].userBadges = IF ok THEN BadgesOf(f.user) ELSE <<>>,
                           ![s].badgeFetches = FilterIdx(@, i, 1)]
       /\ last' = StepInfo(s, "fetchUserBadges", IF ok THEN "ok" ELSE "error",
                           <<>>, f.user)
       /\ UNCHANGED <<auth, page, profiles, lbOthers>>

LeaderboardNext(s) ==
  \/ LeaderboardAuthChange(s)
  \/ FetchLeaderboardReturns(s)
  \/ FetchUserBadgesReturns(s)

(***************************************************************************)
(* Admin (src/Admin.tsx)                                                    *)
(***************************************************************************)
\* what the Admin page neither reads nor writes
admOthers == <<rn, edu, lb, trk, ct, progress, profiles, messages,
               badges, user_badges>>

\* the statuses picked in the update form here
FormStatuses == {"resolved", "rejected"}

\* the values the two filter selects are set to here
FilterCategories == {"all", "garbage"}
FilterStatuses == {"all", "resolved"}

\* new Date().toISOString()
Now == "now"

RECURSIVE Reverse(_)
Reverse(seq) == IF seq = <<>> THEN <<>> ELSE Append(Reverse(Tail(seq)), Head(seq))

\* select('*').order('created_at', {ascending: false}) with the eq() filters
\* that are not 'all'
ReportsQuery(rows, categoryFilter, statusFilter) ==
  Reverse(SelectSeq2(rows,
    {r \in Range(rows) :
       /\ categoryFilter = "all" \/ r.category = categoryFilter
       /\ statusFilter = "all" \/ r.status = statusFilter}))

CountStatus(allReports, statuses) ==
  Len(SelectSeq2(allReports, {r \in Range(allReports) : r.status \in statuses}))

\* (mutant) in_progress leaves out the assigned reports
ComputeStatsNarrow(allReports) ==
  [total |-> Len(allReports),
   submitted |-> CountStatus(allReports, {"submitted"}),
   in_progress |-> CountStatus(allReports, {"in_review", "in_progress"}),
   resolved |-> CountStatus(allReports, {"resolved"})]

\* the object given to setStats
ComputeStats(allReports) ==
  [total |-> Len(allReports),
   submitted |-> CountStatus(allReports, {"submitted"}),
   in_progress |-> CountStatus(allReports, {"in_review", "assigned", "in_progress"}),
   resolved |-> CountStatus(allReports, {"resolved"})]

\* (mutant) the resolution timestamp is stamped whatever the status
UpdatesAlwaysStamp(updateData) ==
  [c \in {"status", "assigned_to", "authority_remarks", "resolved_at"} |->
     IF c = "status" THEN updateData.status
     ELSE IF c = "assigned_to" THEN updateData.assigned_to
     ELSE IF c = "authority_remarks" THEN updateData.remarks
     ELSE Now]

\* (mutant) the resolution timestamp is never stamped
UpdatesNeverStamp(updateData) ==
  [c \in {x \in {"status", "assigned_to", "authority_remarks"} :
            \/ x = "status" /\ updateData.status # ""
            \/ x = "assigned_to" /\ updateData.assigned_to # ""
            \/ x = "authority_remarks" /\ updateData.remarks # ""} |->
     IF c = "status" THEN updateData.status
     ELSE IF c = "assigned_to" THEN updateData.assigned_to
     ELSE updateData.remarks]

\* the object `updates` of handleUpdateReport: a column for each non-empty
\* field of the form, and resolved_at when the status is 'resolved'
Updates(updateData) ==
  [c \in {x \in {"status", "assigned_to", "authority_remarks", "resolved_at"} :
            \/ x = "status" /\ updateData.status # ""
            \/ x = "assigned_to" /\ updateData.assigned_to # ""
            \/ x = "authority_remarks" /\ updateData.remarks # ""
            \/ x = "resolved_at" /\ updateData.status = "resolved"} |->
     IF c = "status" THEN updateData.status
     ELSE IF c = "assigned_to" THEN updateData.assigned_to
     ELSE IF c = "authority_remarks" THEN updateData.remarks
     ELSE Now]

\* (mutant) a column that an update has written is not written again
ApplyUpdateFirstWins(rows, id, updates) ==
  [i \in 1..Len(rows) |->
     IF rows[i].id = id
     THEN [c \in DOMAIN rows[i] |->
             IF c \in DOMAIN updates /\ rows[i][c] \in {Null, "submitted"}
             THEN updates[c] ELSE rows[i][c]]
     ELSE rows[i]]

\* (mutant) the update removes the report it was to write
ApplyUpdateDropping(rows, id, updates) ==
  SelectSeq2(rows, {r \in Range(rows) : r.id # id})

\* update(updates).eq('id', id) on the table
ApplyUpdate(rows, id, updates) ==
  [i \in 1..Len(rows) |->
     IF rows[i].id = id
     THEN [c \in DOMAIN rows[i] |->
             IF c \in DOMAIN updates THEN updates[c] ELSE rows[i][c]]
     ELSE rows[i]]

\* fetches: the running fetchReports calls with the filters each captured;
\* update: the running handleUpdateReport (at most one: the button is disabled
\* while updating), with the payload and the filters of its render.
\* selectedReport is <<>> for null, <<row>> for a report.  issued counts the
\* updates the session has issued.
AdminInit ==
  [reports |-> <<>>,
   stats |-> [total |-> 0, submitted |-> 0, in_progress |-> 0, resolved |-> 0],
   loading |-> TRUE, searchQuery |-> <<>>,
   categoryFilter |-> "all", statusFilter |-> "all",
   selectedReport |-> <<>>,
   updateData |-> [status |-> "", assigned_to |-> "", remarks |-> ""],
   updating |-> FALSE, fetches |-> <<>>, update |-> <<>>, issued |-> 0]

\* fetchReports up to its await
StartFetchReports(a, categoryFilter, statusFilter) ==
  [a EXCEPT !.loading = TRUE,
            !.fetches = Append(@, [categoryFilter |-> categoryFilter,
                                   statusFilter |-> statusFilter])]

\* if (!authLoading && (!user || !isAdmin))
AccessDenied(a) == ~a.loading /\ (a.user = NoUser \/ ~a.isAdmin)

\* the Admin view is rendered: past `if (authLoading)` and `if (!isAdmin)`
AdminShown(s) == page[s] = "admin" /\ ~auth[s].loading /\ auth[s].isAdmin

\* useAuth changes; the two effects run: toast and navigate('/') when access
\* is denied, fetchReports() when isAdmin became true
AdminAuthChange(s) ==
  \E a \in {AuthOf(u) : u \in SignIns(s) \cup {NoUser}} :
    /\ page[s] = "admin"
    /\ a # auth[s]
    /\ auth[s].loading \/ a.user = NoUser
    /\ auth' = [auth EXCEPT ![s] = a]
    /\ page' = [page EXCEPT ![s] = IF AccessDenied(a) THEN "home" ELSE @]
    /\ IF a.isAdmin /\ ~auth[s].isAdmin
       THEN adm' = [adm EXCEPT ![s] =
                      StartFetchReports(@, @.categoryFilter, @.statusFilter)]
       ELSE adm' = adm
    /\ last' = Step(s, "Admin.effect", IF AccessDenied(a) THEN "denied" ELSE "ok",
                    IF AccessDenied(a) THEN <<"Access denied">> ELSE <<>>)
    /\ UNCHANGED <<reports, admOthers>>

\* the filter selects are reachable: the view is shown and no dialog is open
FiltersShown(s) == AdminShown(s) /\ adm[s].selectedReport = <<>>

\* Select onValueChange={setCategoryFilter}; the effect refetches
setCategoryFilter(s) ==
  \E v \in FilterCategories :
    /\ FiltersShown(s)
    /\ v # adm[s].categoryFilter
    /\ Len(adm[s].fetches) < MaxFetches
    /\ adm' = [adm EXCEPT ![s] =
                 StartFetchReports([@ EXCEPT !.categoryFilter = v], v, @.statusFilter)]
    /\ last' = Step(s, "input", "ok", <<>>)
    /\ UNCHANGED <<auth, page, reports, admOthers>>

\* Select onValueChange={setStatusFilter}; the effect refetches
setStatusFilter(s) ==
  \E v \in FilterStatuses :
    /\ FiltersShown(s)
    /\ v # adm[s].statusFilter
    /\ Len(adm[s].fetches) < MaxFetches
    /\ adm' = [adm EXCEPT ![s] =
                 StartFetchReports([@ EXCEPT !.statusFilter = v], @.categoryFilter, v)]
    /\ last' = Step(s, "input", "ok", <<>>)
    /\ UNCHANGED <<auth, page, reports, admOthers>>

\* the query of a running fetchReports returns to the mounted view
FetchReportsReturns(s) ==
  \E i \in 1..Len(adm[s].fetches), ok \in BOOLEAN :
    LET f == adm[s].fetches[i]
        data == ReportsQuery(reports, f.categoryFilter, f.statusFilter)
    IN /\ page[s] = "admin"
       /\ adm' = [adm EXCEPT ![s] =
            IF ok
            THEN [@ EXCEPT !.reports = data, !.stats = ComputeStats(data),
                           !.fetches = FilterIdx(@, i, 1), !.loading = FALSE]
            ELSE [@ EXCEPT !.fetches = FilterIdx(@, i, 1), !.loading = FALSE]]
       /\ last' = StepInfo(s, "fetchReports", IF ok THEN "ok" ELSE "error", <<>>,
                           [categoryFilter |-> f.categoryFilter,
                            statusFilter |-> f.statusFilter])
       /\ UNCHANGED <<auth, page, reports, admOthers>>

\* The texts the search compares, as lists of characters.  A text of the
\* model has at most one character; the tracking number is the prefix
\* followed by the digits of the id.
CharsOfText(text) == IF text = "" THEN <<>> ELSE <<text>>

CharsOfNumber(number) == <<"C", "I", "V", ToString(number[2])>>

\* String.prototype.toLowerCase, on the letters that occur
LowerCaseOf(ch) ==
  IF ch = "A" THEN "a" ELSE IF ch = "C" THEN "c" ELSE IF ch = "I" THEN "i"
  ELSE IF ch = "V" THEN "v" ELSE IF ch = "Z" THEN "z" ELSE ch

toLowerCase(chars) == [i \in 1..Len(chars) |-> LowerCaseOf(chars[i])]

\* String.prototype.includes
includes(chars, searchString) ==
  \E i \in 0..(Len(chars) - Len(searchString)) :
    SubSeq(chars, i + 1, i + Len(searchString)) = searchString

\* what the admin types in the search box
SearchQueries == {<<>>, <<"A">>, <<"i", "v">>, <<"1">>, <<"z">>}

\* const filteredReports = reports.filter(...): title, tracking number or
\* city contains the search text, letter case ignored; city?. of a null city
\* is undefined
filteredReports(heldReports, searchQuery) ==
  SelectSeq2(heldReports,
    {r \in Range(heldReports) :
       \/ includes(toLowerCase(CharsOfText(r.title)), toLowerCase(searchQuery))
       \/ includes(toLowerCase(CharsOfNumber(r.report_number)), toLowerCase(searchQuery))
       \/ /\ r.city # Null
          /\ includes(toLowerCase(CharsOfText(r.city)), toLowerCase(searchQuery))})

\* (mutant) typing in the search box recounts the statistics over the rows
\* that stay displayed
setSearchQueryRecounting(s) ==
  \E v \in SearchQueries :
    /\ FiltersShown(s)
    /\ v # adm[s].searchQuery
    /\ adm' = [adm EXCEPT ![s].searchQuery = v,
                          ![s].stats = ComputeStats(filteredReports(adm[s].reports, v))]
    /\ last' = Step(s, "input", "ok", <<>>)
    /\ UNCHANGED <<auth, page, reports, admOthers>>

\* Input onChange={(e) => setSearchQuery(e.target.value)}
setSearchQuery(s) ==
  \E v \in SearchQueries :
    /\ FiltersShown(s)
    /\ v # adm[s].searchQuery
    /\ adm' = [adm EXCEPT ![s].searchQuery = v]
    /\ last' = Step(s, "input", "ok", <<>>)
    /\ UNCHANGED <<auth, page, reports, admOthers>>

\* x || ''
OrEmpty(x) == IF x = Null THEN "" ELSE x

\* the Eye button of a displayed report: open the dialog, prefill the form
OpenReport(s) ==
  \E i \in 1..Len(filteredReports(adm[s].reports, adm[s].searchQuery)) :
    LET report == filteredReports(adm[s].reports, adm[s].searchQuery)[i]
    IN /\ FiltersShown(s)
       /\ ~adm[s].loading                        \* the table is rendered
       /\ adm[s].issued < MaxUpdates            \* opened to issue an update
       /\ adm' = [adm EXCEPT ![s].selectedReport = <<report>>,
                             ![s].updateData =
                                [status |-> OrEmpty(report.status),
                                 assigned_to |-> OrEmpty(report.assigned_to),
                                 remarks |-> OrEmpty(report.authority_remarks)]]
       /\ last' = Step(s, "input", "ok", <<>>)
       /\ UNCHANGED <<auth, page, reports, admOthers>>

DialogShown(s) == AdminShown(s) /\ adm[s].selectedReport # <<>>

\* the status select, the Assigned To input and the Remarks textarea
setUpdateData(s) ==
  /\ DialogShown(s)
  /\ \/ \E v \in FormStatuses : adm' = [adm EXCEPT ![s].updateData.status = v]
     \/ \E v \in Texts : adm' = [adm EXCEPT ![s].updateData.assigned_to = v]
     \/ \E v \in Texts : adm' = [adm EXCEPT ![s].updateData.remarks = v]
  /\ adm' # adm
  /\ last' = Step(s, "input", "ok", <<>>)
  /\ UNCHANGED <<auth, page, reports, admOthers>>

\* Cancel, or the dialog's onOpenChange
CloseDialog(s) ==
  /\ DialogShown(s)
  /\ adm' = [adm EXCEPT ![s].selectedReport = <<>>]
  /\ last' = Step(s, "input", "ok", <<>>)
  /\ UNCHANGED <<auth, page, reports, admOthers>>

\* handleUpdateReport up to its await: the update request is issued
handleUpdateReport(s) ==
  /\ DialogShown(s)
  /\ ~adm[s].updating                          \* disabled={updating}
  /\ adm[s].issued < MaxUpdates
  /\ adm' = [adm EXCEPT ![s].updating = TRUE,
                        ![s].issued = @ + 1,
                        ![s].update =
                           <<[id |-> adm[s].selectedReport[1].id,
                              updates |-> Updates(adm[s].updateData),
                              form |-> adm[s].updateData,
                              by |-> auth[s],
                              categoryFilter |-> adm[s].categoryFilter,
                              statusFilter |-> adm[s].statusFilter]>>]
  /\ last' = Step(s, "handleUpdateReport", "issued", <<>>)
  /\ UNCHANGED <<auth, page, reports, admOthers>>

\* the update returns: the row is written unless the request failed; then the
\* toast, setSelectedReport(null) and fetchReports() of the render that issued
\* it, or the failure toast; finally setUpdating(false).  The continuation
\* runs whether or not the view is still mounted.
UpdateReturns(s) ==
  \E ok \in BOOLEAN :
    /\ adm[s].update # <<>>
    /\ LET u == adm[s].update[1]
       IN /\ reports' = IF ok THEN ApplyUpdate(reports, u.id, u.updates) ELSE reports
          /\ adm' = [adm EXCEPT ![s] =
               IF ok
               THEN StartFetchReports(
                      [@ EXCEPT !.selectedReport = <<>>, !.updating = FALSE,
                                !.update = <<>>],
                      u.categoryFilter, u.statusFilter)
               ELSE [@ EXCEPT !.updating = FALSE, !.update = <<>>]]
          /\ last' = StepInfo(s, "handleUpdateReport.update",
                              IF ok THEN "ok" ELSE "error",
                              IF ok THEN <<"Report updated">> ELSE <<"Update failed">>,
                              [id |-> u.id, updates |-> u.updates, form |-> u.form,
                               by |-> u.by, before |-> reports])
    /\ UNCHANGED <<auth, page, admOthers>>

AdminNext(s) ==
  \/ AdminAuthChange(s)
  \/ setCategoryFilter(s)
  \/ setStatusFilter(s)
  \/ FetchReportsReturns(s)
  \/ OpenReport(s)
  \/ setUpdateData(s)
  \/ CloseDialog(s)
  \/ handleUpdateReport(s)
  \/ UpdateReturns(s)

(***************************************************************************)
(* TrackReport (src/unnamed/part_003)                                       *)
(***************************************************************************)
\* what the TrackReport page neither reads nor writes
trkOthers == <<rn, edu, lb, adm, ct, reports, progress, profiles, messages,
               badges, user_badges>>

statusOrder == <<"submitted", "in_review", "assigned", "in_progress", "resolved">>

\* statusOrder.indexOf(status): the position counted from zero, -1 when absent
getStatusIndex(status) ==
  IF \E i \in 1..Len(statusOrder) : statusOrder[i] = status
  THEN (CHOOSE i \in 1..Len(statusOrder) : statusOrder[i] = status) - 1
  ELSE -1

\* (mutant) a step counts as completed only once the report is past it
isCompletedStrict(status, index) == getStatusIndex(status) > index

\* const isCompleted = getStatusIndex(report.status) >= index
isCompleted(status, index) == getStatusIndex(status) >= index

\* const isCurrent = report.status === status
isCurrent(reportStatus, status) == reportStatus = status

\* the timeline rendered for a report: statusOrder.map((status, index) => ...),
\* index counted from zero
Timeline(reportStatus) ==
  [k \in 1..Len(statusOrder) |->
     [completed |-> isCompleted(reportStatus, k - 1),
      current |-> isCurrent(reportStatus, statusOrder[k])]]

\* a report number no report has: the ids start at 1
NoSuchNumber == ReportNumber(0)

\* what the search box or the ?id= parameter may hold: nothing, a blank, the
\* number of the first report, a number of no report
SearchInputs == {<<>>, <<" ">>, ReportNumber(1), NoSuchNumber}

\* searchId.trim()
Trim(text) == IF text = <<" ">> THEN <<>> ELSE text

\* select('*').eq('report_number', reportId).maybeSingle(): the row, if any
\* (report numbers are unique); <<>> stands for data null
MaybeSingle(rows, reportId) ==
  SelectSeq2(rows, {r \in Range(rows) : r.report_number = reportId})

\* select('*').eq('user_id', user.id).order('created_at', {ascending: false})
ReportsOf(rows, user) ==
  Reverse(SelectSeq2(rows, {r \in Range(rows) : r.user_id = user}))

\* (mutant) a lookup without a row leaves the report on display
AfterSearchKeeping(report, data) == IF data = <<>> THEN report ELSE data

\* if (!data) setReport(null) else setReport(data)
AfterSearch(report, data) == data

\* report is <<>> for null, <<row>> for a report; searches: the running
\* searchReport calls with the id each looks up; userFetches: the running
\* fetchUserReports calls with the user each captured
TrackReportInit ==
  [searchId |-> <<>>, report |-> <<>>, userReports |-> <<>>, loading |-> FALSE,
   loadingUserReports |-> FALSE, searches |-> <<>>, userFetches |-> <<>>]

\* the page as mounted with ?id=id: useState(searchParams.get('id') || ''),
\* then the effect's setSearchId(id) and searchReport(id) up to its await
TrackReportMounted(id) ==
  IF id = <<>> THEN TrackReportInit
  ELSE [TrackReportInit EXCEPT !.searchId = id, !.loading = TRUE,
                               !.searches = <<[reportId |-> id]>>]

\* useEffect(() => { if (user) fetchUserReports() }, [user])
TrackAuthChange(s) ==
  \E a \in {AuthOf(u) : u \in SignIns(s) \cup {NoUser}} :
    /\ page[s] = "track"
    /\ a # auth[s]
    /\ auth[s].loading \/ a.user = NoUser
    /\ auth' = [auth EXCEPT ![s] = a]
    /\ IF a.user # auth[s].user /\ a.user # NoUser
       THEN /\ Len(trk[s].userFetches) < MaxFetches
            /\ trk' = [trk EXCEPT ![s].loadingUserReports = TRUE,
                                  ![s].userFetches = Append(@, [user |-> a.user])]
       ELSE trk' = trk
    /\ last' = Step(s, "TrackReport.effect", "ok", <<>>)
    /\ UNCHANGED <<page, trkOthers>>

\* a user signs in while the page stays mounted and nobody is signed in (the
\* session of the shared browser changes in another tab): the effect runs
\* again for the new user; userReports is left as it is
TrackSignIn(s) ==
  \E u \in SignIns(s) :
    /\ page[s] = "track"
    /\ ~auth[s].loading
    /\ auth[s].user = NoUser
    /\ Len(trk[s].userFetches) < MaxFetches
    /\ auth' = [auth EXCEPT ![s] = AuthOf(u)]
    /\ trk' = [trk EXCEPT ![s].loadingUserReports = TRUE,
                          ![s].userFetches = Append(@, [user |-> u])]
    /\ last' = Step(s, "TrackReport.effect", "ok", <<>>)
    /\ UNCHANGED <<page, trkOthers>>

\* the query of a running fetchUserReports returns
FetchUserReportsReturns(s) ==
  \E i \in 1..Len(trk[s].userFetches), ok \in BOOLEAN :
    LET f == trk[s].userFetches[i]
    IN /\ page[s] = "track"
       /\ trk' = [trk EXCEPT ![s].userReports =
                               IF ok THEN ReportsOf(reports, f.user) ELSE @,
                             ![s].userFetches = FilterIdx(@, i, 1),
                             ![s].loadingUserReports = FALSE]
       /\ last' = Step(s, "fetchUserReports", IF ok THEN "ok" ELSE "error", <<>>)
       /\ UNCHANGED <<auth, page, trkOthers>>

\* onChange={(e) => setSearchId(e.target.value)}
setSearchId(s) ==
  \E v \in SearchInputs :
    /\ page[s] = "track"
    /\ v # trk[s].searchId
    /\ trk' = [trk EXCEPT ![s].searchId = v]
    /\ last' = Step(s, "input", "ok", <<>>)
    /\ UNCHANGED <<auth, page, trkOthers>>

\* a card of Your Reports: setSearchId(r.report_number); setReport(r)
SelectUserReport(s) ==
  \E i \in 1..Len(trk[s].userReports) :
    /\ page[s] = "track"
    /\ auth[s].user # NoUser /\ ~trk[s].loadingUserReports
    /\ trk' = [trk EXCEPT ![s].searchId = trk[s].userReports[i].report_number,
                          ![s].report = <<trk[s].userReports[i]>>]
    /\ trk' # trk
    /\ last' = Step(s, "input", "ok", <<>>)
    /\ UNCHANGED <<auth, page, trkOthers>>

\* searchReport() up to its await, from the Track button (disabled while
\* loading) or from the Enter key of the input (never disabled)
searchReport(s) ==
  \E enter \in BOOLEAN :
    LET reportId == Trim(trk[s].searchId)
    IN /\ page[s] = "track"
       /\ enter \/ ~trk[s].loading
       /\ IF reportId = <<>>
          THEN /\ trk' = trk
               /\ last' = Step(s, "searchReport", "empty", <<"Enter Report ID">>)
          ELSE /\ Len(trk[s].searches) < MaxSearches
               /\ trk' = [trk EXCEPT ![s].loading = TRUE,
                                     ![s].searches = Append(@, [reportId |-> reportId])]
               /\ last' = Step(s, "searchReport", "issued", <<>>)
       /\ UNCHANGED <<auth, page, trkOthers>>

\* (mutant) setLoading(false) at the end of the try block instead of in a
\* finally: a query that fails leaves the flag set
SearchReturnsWithoutFinally(s) ==
  \E i \in 1..Len(trk[s].searches), ok \in BOOLEAN :
    LET q == trk[s].searches[i]
        data == MaybeSingle(reports, q.reportId)
    IN /\ page[s] = "track"
       /\ trk' = [trk EXCEPT ![s].report = IF ok THEN AfterSearch(@, data) ELSE @,
                             ![s].searches = FilterIdx(@, i, 1),
                             ![s].loading = IF ok THEN FALSE ELSE @]
       /\ last' = StepInfo(s, "searchReport.query",
                           IF ~ok THEN "error" ELSE IF data = <<>> THEN "none" ELSE "found",
                           IF ~ok THEN <<"Search failed">>
                           ELSE IF data = <<>> THEN <<"Report not found">> ELSE <<>>,
                           [reportId |-> q.reportId, shown |-> trk[s].report])
       /\ UNCHANGED <<auth, page, trkOthers>>

\* the query of a running searchReport returns: the row, no row, or an error
SearchReturns(s) ==
  \E i \in 1..Len(trk[s].searches), ok \in BOOLEAN :
    LET q == trk[s].searches[i]
        data == MaybeSingle(reports, q.reportId)
    IN /\ page[s] = "track"
       /\ trk' = [trk EXCEPT ![s].report = IF ok THEN AfterSearch(@, data) ELSE @,
                             ![s].searches = FilterIdx(@, i, 1),
                             ![s].loading = FALSE]
       /\ last' = StepInfo(s, "searchReport.query",
                           IF ~ok THEN "error" ELSE IF data = <<>> THEN "none" ELSE "found",
                           IF ~ok THEN <<"Search failed">>
                           ELSE IF data = <<>> THEN <<"Report not found">> ELSE <<>>,
                           [reportId |-> q.reportId, shown |-> trk[s].report])
       /\ UNCHANGED <<auth, page, trkOthers>>

TrackReportNext(s) ==
  \/ TrackAuthChange(s)
  \/ FetchUserReportsReturns(s)
  \/ setSearchId(s)
  \/ SelectUserReport(s)
  \/ searchReport(s)
  \/ SearchReturns(s)

(***************************************************************************)
(* Contact (src/Contact.tsx)                                                *)
(***************************************************************************)
\* what the Contact page neither reads nor writes
ctOthers == <<auth, page, rn, edu, lb, adm, trk, reports, progress, profiles,
              badges, user_badges>>

\* the limits of contactSchema
NameMin == 2
NameMax == 100
EmailMax == 255
SubjectMin == 5
SubjectMax == 200
MessageMin == 10
MessageMax == 1000

\* a string as contactSchema sees it: its length, and whether it matches the
\* pattern of z.string().email()
Str(length, wellFormed) == [length |-> length, wellFormed |-> wellFormed]

EmptyStr == Str(0, FALSE)

ContactFields == <<"name", "email", "subject", "message">>

\* what the model types into the fields: strings at and around the limits; an
\* address that is no e-mail address, a short one, one of 255 and one of 256
ContactValues ==
  [name |-> {Str(n, FALSE) : n \in {NameMin - 1, NameMin, NameMax, NameMax + 1}},
   email |-> {Str(6, FALSE), Str(6, TRUE), Str(EmailMax, TRUE), Str(EmailMax + 1, TRUE)},
   subject |-> {Str(n, FALSE) : n \in {SubjectMin - 1, SubjectMin, SubjectMax,
                                       SubjectMax + 1}},
   message |-> {Str(n, FALSE) : n \in {MessageMin - 1, MessageMin, MessageMax,
                                       MessageMax + 1}}]

\* the issues of one z.string() with its checks in the order they are chained:
\* .email(message) or .min(n, message), then .max(n) with the library's message
StringIssues(path, value, isEmail, min, message, max) ==
  (IF isEmail /\ ~value.wellFormed
   THEN <<[path |-> path, message |-> message]>> ELSE <<>>)
  \o (IF ~isEmail /\ value.length < min
      THEN <<[path |-> path, message |-> message]>> ELSE <<>>)
  \o (IF value.length > max
      THEN <<[path |-> path, message |-> "String must contain at most n character(s)"]>>
      ELSE <<>>)

\* (mutant) a schema without the upper limits
contactSchemaMinOnly(formData) ==
  StringIssues("name", formData.name, FALSE, NameMin,
               "Name must be at least 2 characters", NameMax + 1)
  \o StringIssues("email", formData.email, TRUE, 0,
                  "Please enter a valid email address", EmailMax + 1)
  \o StringIssues("subject", formData.subject, FALSE, SubjectMin,
                  "Subject must be at least 5 characters", SubjectMax + 1)
  \o StringIssues("message", formData.message, FALSE, MessageMin,
                  "Message must be at least 10 characters", MessageMax + 1)

\* contactSchema.safeParse(formData): result.error.errors, <<>> on success
contactSchema(formData) ==
  StringIssues("name", formData.name, FALSE, NameMin,
               "Name must be at least 2 characters", NameMax)
  \o StringIssues("email", formData.email, TRUE, 0,
                  "Please enter a valid email address", EmailMax)
  \o StringIssues("subject", formData.subject, FALSE, SubjectMin,
                  "Subject must be at least 5 characters", SubjectMax)
  \o StringIssues("message", formData.message, FALSE, MessageMin,
                  "Message must be at least 10 characters", MessageMax)

\* errors.forEach(err => { fieldErrors[err.path[0]] = err.message }): a later
\* issue of a field overwrites an earlier one
FieldErrors(issues) ==
  [f \in {issues[i].path : i \in 1..Len(issues)} |->
     issues[CHOOSE i \in 1..Len(issues) :
              /\ issues[i].path = f
              /\ \A j \in (i + 1)..Len(issues) : issues[j].path # f].message]

\* sending: the running handleSubmit, with the formData it captured; edits: the
\* edits of the fields made so far
ContactInit ==
  [formData |-> [name |-> EmptyStr, email |-> EmptyStr, subject |-> EmptyStr,
                 message |-> EmptyStr],
   errors |-> [f \in {} |-> ""], loading |-> FALSE, submitted |-> FALSE,
   sending |-> <<>>, edits |-> 0]

\* the form is on screen, and no handleSubmit is running.  A running
\* handleSubmit reads only the formData it captured, so edits made while it
\* runs commute with its steps and are left out.
ContactFormIdle(s) ==
  page[s] = "contact" /\ ~ct[s].submitted /\ ~ct[s].loading

\* handleChange of the Contact page: the field is set, and its error, if it
\* has one, is blanked
Contact_handleChange(s) ==
  \E i \in 1..Len(ContactFields) :
    \E value \in ContactValues[ContactFields[i]] :
      LET name == ContactFields[i]
      IN /\ ContactFormIdle(s)
         /\ ct[s].edits < MaxEdits
         /\ ct[s].formData[name] # value
         /\ ct' = [ct EXCEPT
               ![s].formData[name] = value,
               ![s].edits = @ + 1,
               ![s].errors = IF name \in DOMAIN @ /\ @[name] # ""
                             THEN [@ EXCEPT ![name] = ""] ELSE @]
         /\ last' = Step(s, "input", "ok", <<>>)
         /\ UNCHANGED <<messages, ctOthers>>

\* handleSubmit of the Contact page up to its await; the submit button is
\* disabled while loading, and a disabled submit button also blocks the
\* submission by the Enter key
Contact_handleSubmit(s) ==
  LET issues == contactSchema(ct[s].formData)
  IN /\ ContactFormIdle(s)
     /\ IF issues # <<>>
        THEN /\ ct' = [ct EXCEPT ![s].errors = FieldErrors(issues)]
             /\ last' = StepInfo(s, "Contact.handleSubmit", "invalid", <<>>,
                                 [sent |-> Len(messages)])
        ELSE /\ Len(messages) < MaxMessages
             /\ ct' = [ct EXCEPT ![s].errors = [f \in {} |-> ""],
                                 ![s].loading = TRUE,
                                 ![s].sending = <<[formData |-> ct[s].formData]>>]
             /\ last' = StepInfo(s, "Contact.handleSubmit", "started", <<>>,
                                 [sent |-> Len(messages)])
     /\ UNCHANGED <<messages, ctOthers>>

\* the object passed to supabase.from('contact_messages').insert(...)
ContactInsert(formData) ==
  [name |-> formData.name, email |-> formData.email, subject |-> formData.subject,
   message |-> formData.message]

\* the awaited insert returns
ContactInsertReturns(s) ==
  \E ok \in BOOLEAN :
    /\ ct[s].sending # <<>>
    /\ messages' = IF ok THEN Append(messages, ContactInsert(ct[s].sending[1].formData))
                   ELSE messages
    /\ ct' = [ct EXCEPT ![s].submitted = IF ok THEN TRUE ELSE @,
                        ![s].loading = FALSE,
                        ![s].sending = <<>>]
    /\ last' = StepInfo(s, "Contact.handleSubmit.insert", IF ok THEN "ok" ELSE "error",
                        IF ok THEN <<"Message sent!">> ELSE <<"Failed to send">>,
                        [sent |-> Len(messages)])
    /\ UNCHANGED ctOthers

\* "Send Another Message" on the success card
SendAnotherMessage(s) ==
  /\ page[s] = "contact"
  /\ ct[s].submitted
  /\ ct' = [ct EXCEPT ![s].submitted = FALSE, ![s].formData = ContactInit.formData]
  /\ last' = Step(s, "input", "ok", <<>>)
  /\ UNCHANGED <<messages, ctOthers>>

ContactNext(s) ==
  \/ Contact_handleChange(s)
  \/ Contact_handleSubmit(s)
  \/ ContactInsertReturns(s)
  \/ SendAnotherMessage(s)

(***************************************************************************)
(* Specifications                                                           *)
(***************************************************************************)
NoStep == Step("none", "init", "ok", <<>>)

\* a citizen's session on the ReportNow page, the table empty
InitReportNow ==
  /\ auth = [s \in Sessions |-> AuthLoading]
  /\ page = [s \in Sessions |-> IF s = "s1" THEN "report" ELSE "closed"]
  /\ rn = [s \in Sessions |-> ReportNowInit]
  /\ edu = [s \in Sessions |-> EducationInit]
  /\ lb = [s \in Sessions |-> LeaderboardInit]
  /\ adm = [s \in Sessions |-> AdminInit]
  /\ trk = [s \in Sessions |-> TrackReportInit]
  /\ reports = <<>>
  /\ progress = <<>>
  /\ profiles = <<>>
  /\ ct = [s \in Sessions |-> ContactInit]
  /\ messages = <<>>
  /\ badges = BadgeRows
  /\ user_badges = UserBadgeRows
  /\ last = NoStep

NextReportNow == ReportNowNext("s1")

SpecReportNow == InitReportNow /\ [][NextReportNow]_vars

\* a signed-in session on the report page, in a browser with or without
\* geolocation: the location button, the address inputs and the submission
InitReportLocation ==
  /\ auth = [s \in Sessions |-> IF s = "s1" THEN AuthOf("u1") ELSE AuthLoading]
  /\ page = [s \in Sessions |-> IF s = "s1" THEN "report" ELSE "closed"]
  /\ \E b \in BOOLEAN :
       rn = [s \in Sessions |-> [ReportNowInit EXCEPT !.geolocation = b]]
  /\ edu = [s \in Sessions |-> EducationInit]
  /\ lb = [s \in Sessions |-> LeaderboardInit]
  /\ adm = [s \in Sessions |-> AdminInit]
  /\ trk = [s \in Sessions |-> TrackReportInit]
  /\ reports = <<>>
  /\ progress = <<>>
  /\ profiles = <<>>
  /\ ct = [s \in Sessions |-> ContactInit]
  /\ messages = <<>>
  /\ badges = BadgeRows
  /\ user_badges = UserBadgeRows
  /\ last = NoStep

NextReportLocation ==
  \/ getLocation("s1")
  \/ PositionReturns("s1")
  \/ GeocodeReturns("s1")
  \/ handleChangeAddress("s1")
  \/ handleChange("s1")
  \/ handleSelectChange("s1")
  \/ handleSubmit("s1")
  \/ InsertReturns("s1")
  \/ SubmitAnother("s1")

SpecReportLocation == InitReportLocation /\ [][NextReportLocation]_vars

\* a session on the Education page; the user may have answered q1 earlier
InitEducation ==
  /\ auth = [s \in Sessions |-> AuthLoading]
  /\ page = [s \in Sessions |-> IF s = "s1" THEN "education" ELSE "closed"]
  /\ rn = [s \in Sessions |-> ReportNowInit]
  /\ edu = [s \in Sessions |->
              IF s = "s1" THEN EducationMounted(NoUser) ELSE EducationInit]
  /\ lb = [s \in Sessions |-> LeaderboardInit]
  /\ adm = [s \in Sessions |-> AdminInit]
  /\ trk = [s \in Sessions |-> TrackReportInit]
  /\ reports = <<>>
  /\ progress \in {<<>>, <<[user_id |-> "u1", quiz_id |-> "q1", is_correct |-> TRUE]>>}
  /\ profiles = <<>>
  /\ ct = [s \in Sessions |-> ContactInit]
  /\ messages = <<>>
  /\ badges = BadgeRows
  /\ user_badges = UserBadgeRows
  /\ last = NoStep

NextEducation == EducationNext("s1")

SpecEducation == InitEducation /\ [][NextEducation]_vars

\* a session on the Leaderboard page, over any profiles table
InitLeaderboard ==
  /\ auth = [s \in Sessions |-> AuthLoading]
  /\ page = [s \in Sessions |-> IF s = "s1" THEN "leaderboard" ELSE "closed"]
  /\ rn = [s \in Sessions |-> ReportNowInit]
  /\ edu = [s \in Sessions |-> EducationInit]
  /\ lb = [s \in Sessions |->
             IF s = "s1" THEN LeaderboardMounted(NoUser) ELSE LeaderboardInit]
  /\ adm = [s \in Sessions |-> AdminInit]
  /\ trk = [s \in Sessions |-> TrackReportInit]
  /\ reports = <<>>
  /\ progress = <<>>
  /\ profiles \in ProfileTables
  /\ ct = [s \in Sessions |-> ContactInit]
  /\ messages = <<>>
  /\ badges = BadgeRows
  /\ user_badges = UserBadgeRows
  /\ last = NoStep

NextLeaderboard == LeaderboardNext("s1")

SpecLeaderboard == InitLeaderboard /\ [][NextLeaderboard]_vars

\* the reports the citizens have submitted: rows as handleSubmit's insert
\* leaves them
SeedForm(category) ==
  [EmptyForm EXCEPT !.category = category, !.title = "a", !.description = "a"]

SeedRow(id) ==
  InsertedRow(ReportInsert("u1", SeedForm(IF id = 1 THEN "garbage" ELSE "pothole"), <<>>),
              id)

\* the tables of up to max reports, each as submitted or as one admin update
\* of its status has left it
RECURSIVE SeedUpdated(_, _, _)
SeedUpdated(rows, st, i) ==
  IF i > Len(st) THEN rows
  ELSE SeedUpdated(IF st[i] = "submitted" THEN rows
                   ELSE ApplyUpdate(rows, i,
                          Updates([status |-> st[i], assigned_to |-> "", remarks |-> ""])),
                   st, i + 1)

SeedTables(max) ==
  UNION {{SeedUpdated([i \in 1..n |-> SeedRow(i)], st, 1) :
            st \in [1..n -> Statuses]} : n \in 0..max}

\* a session on the Admin page, over a table of submitted and updated reports
InitAdmin ==
  /\ auth = [s \in Sessions |-> AuthLoading]
  /\ page = [s \in Sessions |-> IF s = "s2" THEN "admin" ELSE "closed"]
  /\ rn = [s \in Sessions |-> ReportNowInit]
  /\ edu = [s \in Sessions |-> EducationInit]
  /\ lb = [s \in Sessions |-> LeaderboardInit]
  /\ adm = [s \in Sessions |-> AdminInit]
  /\ trk = [s \in Sessions |-> TrackReportInit]
  /\ reports \in SeedTables(MaxSeeds)
  /\ progress = <<>>
  /\ profiles = <<>>
  /\ ct = [s \in Sessions |-> ContactInit]
  /\ messages = <<>>
  /\ badges = BadgeRows
  /\ user_badges = UserBadgeRows
  /\ last = NoStep

NextAdmin == AdminNext("s2")

SpecAdmin == InitAdmin /\ [][NextAdmin]_vars

\* an admin session that looks at the list and filters it, without updating
InitAdminView ==
  /\ auth = [s \in Sessions |-> AuthLoading]
  /\ page = [s \in Sessions |-> IF s = "s2" THEN "admin" ELSE "closed"]
  /\ rn = [s \in Sessions |-> ReportNowInit]
  /\ edu = [s \in Sessions |-> EducationInit]
  /\ lb = [s \in Sessions |-> LeaderboardInit]
  /\ adm = [s \in Sessions |-> AdminInit]
  /\ trk = [s \in Sessions |-> TrackReportInit]
  /\ reports \in SeedTables(MaxListed)
  /\ progress = <<>>
  /\ profiles = <<>>
  /\ ct = [s \in Sessions |-> ContactInit]
  /\ messages = <<>>
  /\ badges = BadgeRows
  /\ user_badges = UserBadgeRows
  /\ last = NoStep

NextAdminView ==
  \/ AdminAuthChange("s2")
  \/ setSearchQuery("s2")
  \/ setCategoryFilter("s2")
  \/ setStatusFilter("s2")
  \/ FetchReportsReturns("s2")

SpecAdminView == InitAdminView /\ [][NextAdminView]_vars

\* a session on the TrackReport page, opened with or without ?id=, over a
\* table of submitted and updated reports
InitTrackReport ==
  /\ auth = [s \in Sessions |-> AuthLoading]
  /\ page = [s \in Sessions |-> IF s = "s1" THEN "track" ELSE "closed"]
  /\ rn = [s \in Sessions |-> ReportNowInit]
  /\ edu = [s \in Sessions |-> EducationInit]
  /\ lb = [s \in Sessions |-> LeaderboardInit]
  /\ adm = [s \in Sessions |-> AdminInit]
  /\ \E id \in {<<>>, ReportNumber(1), NoSuchNumber} :
       trk = [s \in Sessions |->
                IF s = "s1" THEN TrackReportMounted(id) ELSE TrackReportInit]
  /\ reports \in SeedTables(MaxSeeds)
  /\ progress = <<>>
  /\ profiles = <<>>
  /\ ct = [s \in Sessions |-> ContactInit]
  /\ messages = <<>>
  /\ badges = BadgeRows
  /\ user_badges = UserBadgeRows
  /\ last = NoStep

NextTrackReport == TrackReportNext("s1")

SpecTrackReport == InitTrackReport /\ [][NextTrackReport]_vars

\* the TrackReport page open in the shared browser, where one user signs out
\* and another signs in while the page stays mounted; u1 has submitted reports
InitTrackShared ==
  /\ auth = [s \in Sessions |-> AuthLoading]
  /\ page = [s \in Sessions |-> IF s = "s2" THEN "track" ELSE "closed"]
  /\ rn = [s \in Sessions |-> ReportNowInit]
  /\ edu = [s \in Sessions |-> EducationInit]
  /\ lb = [s \in Sessions |-> LeaderboardInit]
  /\ adm = [s \in Sessions |-> AdminInit]
  /\ trk = [s \in Sessions |-> TrackReportInit]
  /\ reports \in SeedTables(MaxListed)
  /\ progress = <<>>
  /\ profiles = <<>>
  /\ ct = [s \in Sessions |-> ContactInit]
  /\ messages = <<>>
  /\ badges = BadgeRows
  /\ user_badges = UserBadgeRows
  /\ last = NoStep

NextTrackShared ==
  \/ TrackAuthChange("s2")
  \/ TrackSignIn("s2")
  \/ FetchUserReportsReturns("s2")
  \/ SelectUserReport("s2")

SpecTrackShared == InitTrackShared /\ [][NextTrackShared]_vars

\* a session on the Contact page
InitContact ==
  /\ auth = [s \in Sessions |-> AuthLoading]
  /\ page = [s \in Sessions |-> IF s = "s1" THEN "contact" ELSE "closed"]
  /\ rn = [s \in Sessions |-> ReportNowInit]
  /\ edu = [s \in Sessions |-> EducationInit]
  /\ lb = [s \in Sessions |-> LeaderboardInit]
  /\ adm = [s \in Sessions |-> AdminInit]
  /\ trk = [s \in Sessions |-> TrackReportInit]
  /\ ct = [s \in Sessions |-> ContactInit]
  /\ reports = <<>>
  /\ progress = <<>>
  /\ profiles = <<>>
  /\ messages = <<>>
  /\ badges = BadgeRows
  /\ user_badges = UserBadgeRows
  /\ last = NoStep

NextContact == ContactNext("s1")

SpecContact == InitContact /\ [][NextContact]_vars

\* the profiles of the two users who sign in
SiteProfiles == ProfileRows(ProfileUsers, {"u1", "u2"}, [u \in Range(ProfileUsers) |-> 2])

\* a session on one of the pages: s2 on the Admin page, or s1 on one of the
\* others; the tables hold one submitted report (none for the ReportNow page,
\* which submits it), the profiles of the users and their badges
InitSite ==
  \E p \in {"report", "education", "leaderboard", "admin", "track", "contact"} :
    LET on(q, s) == p = q /\ s = (IF q = "admin" THEN "s2" ELSE "s1")
    IN /\ auth = [s \in Sessions |-> AuthLoading]
       /\ page = [s \in Sessions |-> IF on(p, s) THEN p ELSE "closed"]
       /\ rn = [s \in Sessions |-> ReportNowInit]
       /\ edu = [s \in Sessions |->
                   IF on("education", s) THEN EducationMounted(NoUser) ELSE EducationInit]
       /\ lb = [s \in Sessions |->
                  IF on("leaderboard", s) THEN LeaderboardMounted(NoUser)
                  ELSE LeaderboardInit]
       /\ adm = [s \in Sessions |-> AdminInit]
       /\ trk = [s \in Sessions |->
                   IF on("track", s) THEN TrackReportMounted(ReportNumber(1))
                   ELSE TrackReportInit]
       /\ ct = [s \in Sessions |-> ContactInit]
       /\ reports = IF p = "report" THEN <<>> ELSE <<SeedRow(1)>>
       /\ progress = <<>>
       /\ profiles = SiteProfiles
       /\ messages = <<>>
       /\ badges = BadgeRows
       /\ user_badges = UserBadgeRows
       /\ last = NoStep

NextSite ==
  \/ ReportNowNext("s1")
  \/ EducationNext("s1")
  \/ LeaderboardNext("s1")
  \/ TrackReportNext("s1")
  \/ ContactNext("s1")
  \/ AdminNext("s2")

SpecSite == InitSite /\ [][NextSite]_vars

\* the ReportNow page with the required fields filled and n images chosen,
\* their previews loaded
FilledReportNow(n) ==
  [ReportNowInit EXCEPT !.formData = SeedForm("garbage"),
                        !.images = [i \in 1..n |-> i],
                        !.imagePreviewUrls = [i \in 1..n |-> i],
                        !.picked = n, !.loads = n]

\* a session on one of the pages, as in InitSite, with the report form filled:
\* the operations that call the backend, and their requests
InitRequests ==
  \E p \in {"report", "education", "leaderboard", "admin", "track", "contact"} :
    LET on(q, s) == p = q /\ s = (IF q = "admin" THEN "s2" ELSE "s1")
    IN /\ auth = [s \in Sessions |-> AuthLoading]
       /\ page = [s \in Sessions |-> IF on(p, s) THEN p ELSE "closed"]
       /\ \E n \in 0..MaxLoads :
            rn = [s \in Sessions |->
                    IF on("report", s) THEN FilledReportNow(n) ELSE ReportNowInit]
       /\ edu = [s \in Sessions |->
                   IF on("education", s) THEN EducationMounted(NoUser) ELSE EducationInit]
       /\ lb = [s \in Sessions |->
                  IF on("leaderboard", s) THEN LeaderboardMounted(NoUser)
                  ELSE LeaderboardInit]
       /\ adm = [s \in Sessions |-> AdminInit]
       /\ trk = [s \in Sessions |->
                   IF on("track", s) THEN TrackReportMounted(ReportNumber(1))
                   ELSE TrackReportInit]
       /\ ct = [s \in Sessions |-> ContactInit]
       /\ reports = IF p = "report" THEN <<>> ELSE <<SeedRow(1)>>
       /\ progress = <<>>
       /\ profiles = SiteProfiles
       /\ messages = <<>>
       /\ badges = BadgeRows
       /\ user_badges = UserBadgeRows
       /\ last = NoStep

NextRequests ==
  \/ ReportNowAuthChange("s1")
  \/ handleSubmit("s1")
  \/ UploadReturns("s1")
  \/ InsertReturns("s1")
  \/ EducationAuthChange("s1")
  \/ FetchDataReturns("s1")
  \/ LeaderboardNext("s1")
  \/ TrackReportNext("s1")
  \/ ContactNext("s1")
  \/ AdminNext("s2")

\* every backend request of a session eventually completes, with success or
\* with an error: the return step of each awaited call is taken
Completes(s) ==
  /\ WF_vars(UploadReturns(s))
  /\ WF_vars(InsertReturns(s))
  /\ WF_vars(FetchDataReturns(s))
  /\ WF_vars(FetchLeaderboardReturns(s))
  /\ WF_vars(FetchReportsReturns(s))
  /\ WF_vars(UpdateReturns(s))
  /\ WF_vars(FetchUserReportsReturns(s))
  /\ WF_vars(SearchReturns(s))
  /\ WF_vars(ContactInsertReturns(s))

SpecRequests ==
  InitRequests /\ [][NextRequests]_vars /\ \A s \in Sessions : Completes(s)

\* the Education page of a session that has fetched the quiz data and the
\* progress of its user
EducationFetched(user) ==
  [EducationInit EXCEPT !.categories = QuizCategoryRows, !.quizzes = QuizRows,
                        !.userProgress = ProgressOf(progress, user),
                        !.loading = FALSE, !.fetchedFor = user]

\* two tabs of the same user on the Education page, both with the quiz data
\* and the user's progress fetched, before any answer
InitEducationTabs ==
  /\ auth = [s \in Sessions |-> AuthOf("u1")]
  /\ page = [s \in Sessions |-> "education"]
  /\ rn = [s \in Sessions |-> ReportNowInit]
  /\ progress = <<>>
  /\ edu = [s \in Sessions |-> EducationFetched("u1")]
  /\ lb = [s \in Sessions |-> LeaderboardInit]
  /\ adm = [s \in Sessions |-> AdminInit]
  /\ trk = [s \in Sessions |-> TrackReportInit]
  /\ ct = [s \in Sessions |-> ContactInit]
  /\ reports = <<>>
  /\ profiles = <<>>
  /\ messages = <<>>
  /\ badges = BadgeRows
  /\ user_badges = UserBadgeRows
  /\ last = NoStep

\* what the two tabs do: each takes a quiz to its end, where the page fetches
\* its data again; neither signs out or leaves the quiz
NextEducationTabs ==
  \E s \in Sessions :
    \/ handleStartQuiz(s)
    \/ handleAnswer(s)
    \/ AnswerInsertReturns(s)
    \/ handleNext(s)

SpecEducationTabs == InitEducationTabs /\ [][NextEducationTabs]_vars

\* the Admin page of a session whose first fetchReports, unfiltered, has
\* returned the rows of the table
AdminFetched(rows) ==
  [AdminInit EXCEPT !.reports = ReportsQuery(rows, "all", "all"),
                    !.stats = ComputeStats(ReportsQuery(rows, "all", "all")),
                    !.loading = FALSE]

\* a session on the Education page with the quiz data fetched, signed in or
\* not, taking quizzes; a call of handleAnswer can come while the result of
\* the question is shown
InitEducationQuiz ==
  /\ \E u \in {"u1", NoUser} :
       /\ auth = [s \in Sessions |-> IF s = "s1" THEN AuthOf(u) ELSE AuthLoading]
       /\ progress \in {<<>>, <<[user_id |-> "u1", quiz_id |-> "q1", is_correct |-> TRUE]>>}
       /\ edu = [s \in Sessions |->
                   IF s = "s1" THEN EducationFetched(u) ELSE EducationInit]
  /\ page = [s \in Sessions |-> IF s = "s1" THEN "education" ELSE "closed"]
  /\ rn = [s \in Sessions |-> ReportNowInit]
  /\ lb = [s \in Sessions |-> LeaderboardInit]
  /\ adm = [s \in Sessions |-> AdminInit]
  /\ trk = [s \in Sessions |-> TrackReportInit]
  /\ ct = [s \in Sessions |-> ContactInit]
  /\ reports = <<>>
  /\ profiles = <<>>
  /\ messages = <<>>
  /\ badges = BadgeRows
  /\ user_badges = UserBadgeRows
  /\ last = NoStep

NextEducationQuiz ==
  \/ handleStartQuiz("s1")
  \/ ExitQuiz("s1")
  \/ handleAnswer("s1")
  \/ handleAnswerWhileShown("s1")
  \/ AnswerInsertReturns("s1")
  \/ handleNext("s1")
  \/ FetchDataReturns("s1")

SpecEducationQuiz == InitEducationQuiz /\ [][NextEducationQuiz]_vars

\* a citizen with a filled-in report form and an admin with the list being
\* fetched, over a table that is empty or holds a report as an earlier update
\* left it: the submission and the update in any order
InitReportLife ==
  /\ auth = [s \in Sessions |-> IF s = "s1" THEN AuthOf("u1") ELSE AuthOf("u2")]
  /\ page = [s \in Sessions |-> IF s = "s1" THEN "report" ELSE "admin"]
  /\ rn = [s \in Sessions |->
             IF s = "s1" THEN [ReportNowInit EXCEPT !.formData = SeedForm("garbage")]
             ELSE ReportNowInit]
  /\ edu = [s \in Sessions |-> EducationInit]
  /\ lb = [s \in Sessions |-> LeaderboardInit]
  /\ adm = [s \in Sessions |->
              IF s = "s2" THEN StartFetchReports(AdminInit, "all", "all") ELSE AdminInit]
  /\ trk = [s \in Sessions |-> TrackReportInit]
  /\ reports \in SeedTables(MaxSeeds)
  /\ progress = <<>>
  /\ profiles = <<>>
  /\ ct = [s \in Sessions |-> ContactInit]
  /\ messages = <<>>
  /\ badges = BadgeRows
  /\ user_badges = UserBadgeRows
  /\ last = NoStep

NextReportLife ==
  \/ handleSubmit("s1")
  \/ InsertReturns("s1")
  \/ FetchReportsReturns("s2")
  \/ OpenReport("s2")
  \/ setUpdateData("s2")
  \/ CloseDialog("s2")
  \/ handleUpdateReport("s2")
  \/ UpdateReturns("s2")

SpecReportLife == InitReportLife /\ [][NextReportLife]_vars

\* an admin session whose view was mounted and whose category filter was then
\* changed before the first list arrived: the fetch of the mount and the fetch
\* of the new filter are both in flight
InitAdminFilters ==
  /\ auth = [s \in Sessions |-> IF s = "s2" THEN AuthOf("u2") ELSE AuthLoading]
  /\ page = [s \in Sessions |-> IF s = "s2" THEN "admin" ELSE "closed"]
  /\ rn = [s \in Sessions |-> ReportNowInit]
  /\ edu = [s \in Sessions |-> EducationInit]
  /\ lb = [s \in Sessions |-> LeaderboardInit]
  /\ \E v \in FilterCategories \ {"all"} :
       adm = [s \in Sessions |->
                IF s = "s2"
                THEN StartFetchReports(
                       [StartFetchReports(AdminInit, "all", "all")
                          EXCEPT !.categoryFilter = v], v, "all")
                ELSE AdminInit]
  /\ trk = [s \in Sessions |-> TrackReportInit]
  /\ reports \in SeedTables(MaxListed)
  /\ progress = <<>>
  /\ profiles = <<>>
  /\ ct = [s \in Sessions |-> ContactInit]
  /\ messages = <<>>
  /\ badges = BadgeRows
  /\ user_badges = UserBadgeRows
  /\ last = NoStep

\* the lists arrive in any order; once they have, the filters are changed again
NextAdminFilters ==
  \/ FetchReportsReturns("s2")
  \/ setCategoryFilter("s2")
  \/ setStatusFilter("s2")

SpecAdminFilters == InitAdminFilters /\ [][NextAdminFilters]_vars

\* two tabs of the admin on the Admin page, both with the list fetched, over a
\* table with one submitted report
InitAdminTabs ==
  /\ auth = [s \in Sessions |-> AuthOf("u2")]
  /\ page = [s \in Sessions |-> "admin"]
  /\ rn = [s \in Sessions |-> ReportNowInit]
  /\ edu = [s \in Sessions |-> EducationInit]
  /\ lb = [s \in Sessions |-> LeaderboardInit]
  /\ reports = <<SeedRow(1)>>
  /\ adm = [s \in Sessions |-> AdminFetched(<<SeedRow(1)>>)]
  /\ trk = [s \in Sessions |-> TrackReportInit]
  /\ ct = [s \in Sessions |-> ContactInit]
  /\ progress = <<>>
  /\ profiles = <<>>
  /\ messages = <<>>
  /\ badges = BadgeRows
  /\ user_badges = UserBadgeRows
  /\ last = NoStep

\* what the two tabs do: each opens the report, fills in the form and commits,
\* up to the fetchReports that follows the commit
NextAdminTabs ==
  \E s \in Sessions :
    \/ OpenReport(s)
    \/ setUpdateData(s)
    \/ handleUpdateReport(s)
    \/ UpdateReturns(s)

SpecAdminTabs == InitAdminTabs /\ [][NextAdminTabs]_vars

(***************************************************************************)
(* Claims                                                                   *)
(***************************************************************************)
Oks(results) == {i \in 1..Len(results) : results[i].ok}

RECURSIVE UrlsOfOks(_, _)
UrlsOfOks(results, user) ==
  IF results = <<>> THEN <<>>
  ELSE (IF Head(results).ok THEN <<PublicUrl(user, Head(results).file)>> ELSE <<>>)
       \o UrlsOfOks(Tail(results), user)

SubmitCreatedRow == last.op = "handleSubmit.insert" /\ last.outcome = "ok"

\* C1: the row a valid submission creates has status "submitted", and its
\* image_urls holds one URL for each selected file whose upload succeeded, in
\* selection order and none else: as many entries as successful uploads, at
\* most 5.
C1_CreatedRow ==
  SubmitCreatedRow =>
    LET row == reports[last.info.id]
        results == last.info.results
    IN /\ row.category # "" /\ row.title # "" /\ row.description # ""
       /\ row.status = "submitted"
       /\ [i \in 1..Len(results) |-> results[i].file] = last.info.selected
       /\ Len(row.image_urls) = Cardinality(Oks(results))
       /\ row.image_urls = UrlsOfOks(results, last.info.user)
       /\ Len(row.image_urls) <= MaxImages

\* a submission of five images of which some uploads failed and some succeeded
C1_Witness ==
  /\ SubmitCreatedRow
  /\ Len(last.info.selected) = MaxImages
  /\ \E i, j \in 1..MaxImages : last.info.results[i].ok /\ ~last.info.results[j].ok

\* the records of (user, quiz) in the backend table
ProgressRecords(u, q) ==
  {i \in 1..Len(progress) : progress[i].user_id = u /\ progress[i].quiz_id = q}

\* the records of a quiz in a session's local progress list
LocalRecords(s, q) ==
  {i \in 1..Len(edu[s].userProgress) : edu[s].userProgress[i].quiz_id = q}

QuizIds == {QuizRows[i].id : i \in 1..Len(QuizRows)}

\* the session's user is signed in and the page has fetched that user's progress
ProgressFetched(s) ==
  /\ page[s] = "education"
  /\ auth[s].user # NoUser
  /\ edu[s].fetchedFor = auth[s].user

\* C2: once a signed-in user's progress has been fetched, whatever the user
\* answers, exits and retakes in that session, there is at most one progress
\* record per (user, quiz), in the backend table and in the local list.
C2_AtMostOneRecord ==
  \A s \in Sessions : ProgressFetched(s) =>
    \A q \in QuizIds :
      /\ Cardinality(ProgressRecords(auth[s].user, q)) <= 1
      /\ Cardinality(LocalRecords(s, q)) <= 1

\* C6: for a category with at least one question the ratio completed/total of
\* getCategoryProgress is within [0,1] (completed <= total), and it is 1
\* exactly when every question of the category has a progress record of the
\* current user.
C6_ProgressRatio ==
  \A s \in Sessions : \A c \in Range(edu[s].categories) :
    LET pr == getCategoryProgress(edu[s].quizzes, edu[s].userProgress, c.id)
        qs == getCategoryQuizzes(edu[s].quizzes, c.id)
    IN (page[s] = "education" /\ auth[s].user # NoUser /\ pr.total > 0) =>
         /\ 0 <= pr.completed /\ pr.completed <= pr.total
         /\ (pr.completed = pr.total) <=>
              (\A q \in Range(qs) : LocalRecords(s, q.id) # {})

\* no two profiles have equal points (two null points count as equal)
NoTies ==
  \A i, j \in 1..Len(profiles) : i # j => profiles[i].points # profiles[j].points

\* the profiles with strictly greater points than pts; a null is no points
\* total and is neither greater nor smaller than another
GreaterPoints(pts) ==
  {i \in 1..Len(profiles) :
     /\ profiles[i].points # NullPoints /\ pts # NullPoints
     /\ profiles[i].points > pts}

\* the rank shown for the entry at position i is i (getRankIcon(index + 1))
RanksByPoints(s) ==
  \A i \in 1..Len(lb[s].leaderboard) :
    i = 1 + Cardinality(GreaterPoints(lb[s].leaderboard[i].points))

\* C3: when no two profiles have equal points, the rank displayed for every
\* leaderboard entry (its position in the fetched list plus one, counting from
\* zero) equals 1 + the number of profiles with strictly greater points.
C3_RankByPoints ==
  \A s \in Sessions : (page[s] = "leaderboard" /\ NoTies) => RanksByPoints(s)

\* the rows of a list that have one of the statuses
RowsWithStatus(rows, statuses) == {i \in 1..Len(rows) : rows[i].status \in statuses}

\* the step taken last is the return of an unfiltered fetchReports to session s
UnfilteredFetchDone(s) ==
  /\ last.session = s /\ last.op = "fetchReports" /\ last.outcome = "ok"
  /\ last.info.categoryFilter = "all" /\ last.info.statusFilter = "all"

\* C4: after an unfiltered admin fetch, total is the number of fetched rows
\* (all the rows of the table), submitted counts the rows with status
\* submitted, in_progress those with status in_review, assigned or
\* in_progress, resolved those with status resolved, and total minus the three
\* counters is the number of rejected rows.
C4_StatsPartition ==
  \A s \in Sessions : UnfilteredFetchDone(s) =>
    LET st == adm[s].stats
        rows == adm[s].reports
    IN /\ Len(rows) = Len(reports)
       /\ st.total = Len(rows)
       /\ st.submitted = Cardinality(RowsWithStatus(rows, {"submitted"}))
       /\ st.in_progress =
            Cardinality(RowsWithStatus(rows, {"in_review", "assigned", "in_progress"}))
       /\ st.resolved = Cardinality(RowsWithStatus(rows, {"resolved"}))
       /\ st.total - (st.submitted + st.in_progress + st.resolved) =
            Cardinality(RowsWithStatus(rows, {"rejected"}))

\* an unfiltered fetch has returned a rejected report and one in progress
C4_Witness ==
  \E s \in Sessions :
    /\ UnfilteredFetchDone(s)
    /\ RowsWithStatus(adm[s].reports, {"rejected"}) # {}
    /\ RowsWithStatus(adm[s].reports, {"assigned"}) # {}

\* the step taken last is the return of an admin update
UpdateDone == last.op = "handleUpdateReport.update"

\* the columns an update form selects: the non-empty ones of status, assignee
\* and remarks, with the form's values
SelectedColumns(form) ==
  {c \in {"status", "assigned_to", "authority_remarks"} :
     \/ c = "status" /\ form.status # ""
     \/ c = "assigned_to" /\ form.assigned_to # ""
     \/ c = "authority_remarks" /\ form.remarks # ""}

FormValue(form, c) ==
  IF c = "status" THEN form.status
  ELSE IF c = "assigned_to" THEN form.assigned_to ELSE form.remarks

\* C7: the update an admin commits writes exactly the selected (non-empty) ones
\* of status, assignee and remarks, plus resolved_at when and only when the
\* committed status is resolved; no other column of the report and no other
\* report is written, and a failed update writes nothing.
C7_UpdateWrites ==
  UpdateDone =>
    LET u == last.info
        written == DOMAIN u.updates
    IN /\ written \ {"resolved_at"} = SelectedColumns(u.form)
       /\ \A c \in SelectedColumns(u.form) : u.updates[c] = FormValue(u.form, c)
       /\ ("resolved_at" \in written) <=> (u.form.status = "resolved")
       /\ Len(reports) = Len(u.before)
       /\ \A i \in 1..Len(reports) : \A c \in DOMAIN reports[i] :
            reports[i][c] =
              IF last.outcome = "ok" /\ u.before[i].id = u.id /\ c \in written
              THEN u.updates[c] ELSE u.before[i][c]

\* an update of status and remarks, not of the assignee, to a status other
\* than resolved has been committed
C7_Witness ==
  /\ UpdateDone /\ last.outcome = "ok"
  /\ last.info.form.status = "rejected"
  /\ last.info.form.assigned_to = "" /\ last.info.form.remarks = "a"
  /\ reports # last.info.before

\* C9: a report's fields are changed only by the admin update, issued while
\* the session's user has the admin role; no step deletes a report (the table
\* never shrinks and every report keeps its place and id).
C9_OnlyAdminUpdates ==
  [][/\ Len(reports') >= Len(reports)
     /\ \A i \in 1..Len(reports) :
          /\ reports'[i].id = reports[i].id
          /\ reports'[i] # reports[i] =>
               /\ last'.op = "handleUpdateReport.update"
               /\ last'.info.id = reports[i].id
               /\ last'.info.by.isAdmin
     /\ \A s \in Sessions :
          adm'[s].issued > adm[s].issued => AdminShown(s)]_vars

\* an admin update has changed a report
C9_Witness ==
  /\ UpdateDone /\ last.outcome = "ok"
  /\ last.info.by.isAdmin
  /\ \E i \in 1..Len(reports) : reports[i] # last.info.before[i]

\* C10: once auth loading has finished with no user or a user who is not an
\* admin, the admin view has redirected to the home route (so it renders no
\* admin content and no permission-error page), and no step of the session
\* issues the report-list fetch.
C10_NonAdminRedirected ==
  [][\A s \in Sessions :
       (page[s] \in {"admin", "home"} /\ ~auth'[s].loading /\ ~auth'[s].isAdmin) =>
         /\ page'[s] = "home"
         /\ Len(adm'[s].fetches) <= Len(adm[s].fetches)]_vars

\* the step taken last is the return of a lookup whose identifier matches no
\* report
LookupOfNoReport(s) ==
  /\ last.session = s /\ last.op = "searchReport.query"
  /\ MaybeSingle(reports, last.info.reportId) = <<>>

\* what C5 states of the session after such a lookup
NotFoundShown(s) ==
  /\ trk[s].report = <<>>
  /\ last.toasts = <<"Report not found">>
  /\ ~trk[s].loading

\* C5 as stated: a lookup with an identifier that matches no report leaves no
\* report displayed, gives exactly one 'Report not found' notification and
\* returns the loading flag to false.
C5_NotFoundAlways ==
  \A s \in Sessions : LookupOfNoReport(s) => NotFoundShown(s)

\* C5, amended: the same, for a lookup whose query returns without an error (a
\* failed query gives 'Search failed' and leaves the displayed report).
C5_NotFound ==
  \A s \in Sessions :
    (LookupOfNoReport(s) /\ last.outcome # "error") => NotFoundShown(s)

\* a lookup that found nothing has cleared a report that was on display
C5_Witness ==
  \E s \in Sessions :
    /\ LookupOfNoReport(s) /\ last.outcome = "none"
    /\ last.info.shown # <<>>
    /\ trk[s].report = <<>>

\* the positions (from 1) of the timeline steps marked completed, or current
CompletedSteps(status) == {k \in 1..Len(statusOrder) : Timeline(status)[k].completed}
CurrentSteps(status) == {k \in 1..Len(statusOrder) : Timeline(status)[k].current}

\* C8: for a displayed report whose status is the k-th of (submitted,
\* in_review, assigned, in_progress, resolved) exactly the timeline steps up
\* to and including k are marked completed and exactly step k is current; for
\* a rejected report no step is marked completed or current.
C8_Timeline ==
  \A s \in Sessions : trk[s].report # <<>> =>
    LET status == trk[s].report[1].status
    IN /\ \A k \in 1..Len(statusOrder) :
            status = statusOrder[k] =>
              /\ CompletedSteps(status) = 1..k
              /\ CurrentSteps(status) = {k}
       /\ status = "rejected" =>
            /\ CompletedSteps(status) = {}
            /\ CurrentSteps(status) = {}

\* an assigned report is on display
C8_Witness ==
  \E s \in Sessions :
    /\ page[s] = "track" /\ trk[s].report # <<>>
    /\ trk[s].report[1].status = "assigned"

\* ReportNow's handleSubmit has started in session s with this step
SubmitStarted(s) ==
  last'.session = s /\ last'.op = "handleSubmit" /\ last'.outcome = "started"

RequiredFieldEmpty(form) ==
  \E f \in {"category", "title", "description"} : form[f] = ""

\* C12: when category, title or description is empty, handleSubmit starts no
\* upload and no insert, shows exactly the one notification 'Missing
\* information', and leaves loading, submitted, the form data and the rest of
\* the component's state, and the reports table, as they were.
C12_MissingInformation ==
  [][\A s \in Sessions :
       (last'.session = s /\ last'.op = "handleSubmit"
          /\ RequiredFieldEmpty(rn[s].formData)) =>
         /\ last'.outcome = "missing"
         /\ last'.toasts = <<"Missing information">>
         /\ rn'[s].submit.pc = "idle"
         /\ rn'[s].loading = rn[s].loading
         /\ rn'[s].submitted = rn[s].submitted
         /\ rn'[s].formData = rn[s].formData
         /\ rn'[s] = rn[s]
         /\ reports' = reports]_vars

\* handleSubmit has refused a form with a category and images selected and an
\* empty description
C12_Witness ==
  /\ last.op = "handleSubmit" /\ last.outcome = "missing"
  /\ rn[last.session].formData.category = "garbage"
  /\ rn[last.session].formData.title = "a"
  /\ rn[last.session].formData.description = ""
  /\ rn[last.session].images # <<>>

\* a may stand before b in a list in non-increasing order of points; a profile
\* without a point total (null) has no points to stand before one that has
PointsNotBelow(a, b) == b = NullPoints \/ (a # NullPoints /\ a >= b)

\* the rows of the user_badges table of one user
BadgeRowsOf(userId) == {i \in 1..Len(user_badges) : user_badges[i].user_id = userId}

\* C13: the leaderboard holds at most 50 entries in non-increasing order of
\* points; the badge-membership rows are requested for exactly the user ids of
\* the fetched profiles, and each entry's badge_count is the number of
\* badge-membership rows of the entry's user.
C13_TopByPoints ==
  \A s \in Sessions : page[s] = "leaderboard" =>
    LET l == lb[s].leaderboard
    IN /\ Len(l) <= TopN
       /\ \A i, j \in 1..Len(l) : i < j => PointsNotBelow(l[i].points, l[j].points)
       /\ (last.session = s /\ last.op = "fetchLeaderboard.badges") =>
            last.info.userIds = {l[i].user_id : i \in 1..Len(l)}
       /\ \A i \in 1..Len(l) :
            l[i].badge_count = Cardinality(BadgeRowsOf(l[i].user_id))

\* the fields of a contact form that fail the local validation: a name of 2 to
\* 100 characters, a valid e-mail address of at most 255, a subject of 5 to
\* 200, a message of 10 to 1000
FailingFields(formData) ==
  {f \in Range(ContactFields) :
     \/ f = "name" /\ formData.name.length \notin 2..100
     \/ f = "email" /\ ~(formData.email.wellFormed /\ formData.email.length <= 255)
     \/ f = "subject" /\ formData.subject.length \notin 5..200
     \/ f = "message" /\ formData.message.length \notin 10..1000}

\* the fields for which the Contact page of session s shows an error
ErrorsShown(s) == {f \in DOMAIN ct[s].errors : ct[s].errors[f] # ""}

\* C14: the contact form inserts a contact message only when the local
\* validation passes; when it fails, handleSubmit makes no backend call, an
\* error is recorded for each failing field (and for no other), and submitted
\* and loading stay false.
C14_ValidatedInsert ==
  [][/\ Len(messages') > Len(messages) =>
          /\ last'.op = "Contact.handleSubmit.insert"
          /\ FailingFields(messages'[Len(messages')]) = {}
     /\ \A s \in Sessions :
          (last'.session = s /\ last'.op = "Contact.handleSubmit") =>
            IF FailingFields(ct[s].formData) = {}
            THEN last'.outcome = "started" /\ ct'[s].sending # <<>>
            ELSE /\ last'.outcome = "invalid"
                 /\ ct'[s].sending = <<>> /\ messages' = messages
                 /\ ErrorsShown(s)' = FailingFields(ct[s].formData)
                 /\ ~ct[s].submitted /\ ~ct'[s].submitted
                 /\ ~ct[s].loading /\ ~ct'[s].loading]_vars

\* handleSubmit has refused a form whose name and e-mail address are too long
\* and whose subject and message are at their lower limits
C14_Witness ==
  /\ last.op = "Contact.handleSubmit" /\ last.outcome = "invalid"
  /\ ct[last.session].formData.name.length = 101
  /\ ct[last.session].formData.email = Str(256, TRUE)
  /\ ct[last.session].formData.subject.length = 5
  /\ ct[last.session].formData.message.length = 10
  /\ ErrorsShown(last.session) = {"name", "email"}
  /\ messages = <<>>

\* C15: no operation of the UI (submitting a report, answering a quiz,
\* committing an admin update, sending a contact message, viewing the
\* leaderboard) writes a profile's point total, the badge catalog or a
\* badge-membership row: every step leaves the three tables as they were.
C15_PointsAndBadgesReadOnly ==
  [][/\ profiles' = profiles
     /\ badges' = badges
     /\ user_badges' = user_badges]_vars

\* a correct quiz answer of a user with a profile has been recorded
C15_Witness ==
  /\ last.op = "handleAnswer.insert" /\ last.outcome = "ok"
  /\ last.info.is_correct
  /\ \E i \in 1..Len(profiles) : profiles[i].user_id = last.info.user_id
  /\ \E i \in 1..Len(progress) : progress[i].user_id = last.info.user_id

\* the uploads a running handleSubmit has attempted are those of the first
\* images it was started with, in their order
UploadsInOrder(sub) ==
  /\ Len(sub.results) <= Len(sub.selected)
  /\ \A i \in 1..Len(sub.results) : sub.results[i].file = sub.selected[i]
  /\ sub.queue = SubSeq(sub.selected, Len(sub.results) + 1, Len(sub.selected))

\* C16: in a report submission the insert is issued only after the upload
\* attempt of every selected image has completed, the attempts being made in
\* selection order; a failed upload adds no URL, and the submission goes on to
\* the next image or, after the last, to the insert.
C16_UploadsBeforeInsert ==
  [][\A s \in Sessions :
       LET sub == rn[s].submit
           next == rn'[s].submit
       IN /\ UploadsInOrder(next)
          /\ next.pc = "insert" => Len(next.results) = Len(next.selected)
          /\ next.pc = "upload" => Len(next.results) < Len(next.selected)
          /\ (last'.session = s /\ last'.op = "handleSubmit") =>
               (next.pc # "idle" => next.selected = rn[s].images /\ next.results = <<>>)
          /\ (last'.session = s /\ last'.op = "handleSubmit.upload") =>
               /\ next.results = Append(sub.results,
                                        [file |-> Head(sub.queue),
                                         ok |-> last'.outcome = "ok"])
               /\ last'.outcome = "error" => next.imageUrls = sub.imageUrls
               /\ next.pc = IF Len(next.results) = Len(next.selected)
                            THEN "insert" ELSE "upload"
               /\ rn'[s].loading /\ last'.toasts = <<>>
          /\ (last'.session = s /\ last'.op = "handleSubmit.insert") =>
               /\ sub.pc = "insert"
               /\ Len(sub.results) = Len(sub.selected)]_vars

\* a report has been inserted after three upload attempts of which the second
\* failed
C16_Witness ==
  /\ last.op = "handleSubmit.insert" /\ last.outcome = "ok"
  /\ Len(last.info.selected) = 3
  /\ [i \in 1..3 |-> last.info.results[i].ok] = <<TRUE, FALSE, TRUE>>
  /\ Len(reports[last.info.id].image_urls) = 2

\* the awaited backend calls of the claim, by the step that takes their answer:
\* the admin report-list fetch, the user's own report fetch, the leaderboard
\* fetch, the quiz data fetch (three queries), the report insert, the admin
\* update, the contact insert and the tracking lookup
BackendCalls ==
  {"fetchReports", "fetchUserReports", "fetchLeaderboard.profiles",
   "fetchData.categories", "fetchData.quizzes", "fetchData.progress",
   "handleSubmit.insert", "handleUpdateReport.update",
   "Contact.handleSubmit.insert", "searchReport.query"}

\* the requests of session s that await their answer
RequestsInFlight(s) ==
  Len(adm[s].fetches) + Len(adm[s].update) + Len(trk[s].userFetches)
  + Len(trk[s].searches) + Len(lb[s].fetches) + Len(edu[s].fetches)
  + Len(ct[s].sending) + (IF rn[s].submit.pc = "idle" THEN 0 ELSE 1)

\* C17: every failed backend call of the list is caught where it is made and
\* produces exactly one notification, and the step that takes the failure
\* issues no request again.
C17_FailuresNotified ==
  [][\A s \in Sessions :
       (last'.session = s /\ last'.op \in BackendCalls /\ last'.outcome = "error") =>
         /\ Len(last'.toasts) = 1
         /\ RequestsInFlight(s)' <= RequestsInFlight(s)]_vars

\* the question on the screen of session s
QuestionOf(s) == CurrentQuizzes(s)[edu[s].currentQuizIndex + 1]

\* C18: the already-answered pre-check is not atomic across sessions: a
\* signed-in session that answers a question issues the insert exactly when
\* its own fetched list holds no record of the question, whatever the table
\* holds by then, and the table takes every insert that succeeds.  So two tabs
\* of one user that fetched their progress before either answered can both
\* insert a record for the same (user, quiz) pair (the witness).
C18_CheckIsLocal ==
  [][\A s \in Sessions :
       /\ (last'.session = s /\ last'.op = "handleAnswer") =>
            /\ (last'.outcome = "inserting") <=> (LocalRecords(s, QuestionOf(s).id) = {})
            /\ last'.outcome = "inserting" =>
                 /\ Len(edu'[s].answers) = Len(edu[s].answers) + 1
                 /\ edu'[s].answers[Len(edu'[s].answers)].quiz_id = QuestionOf(s).id
                 /\ edu'[s].answers[Len(edu'[s].answers)].user_id = auth[s].user
       /\ (last'.session = s /\ last'.op = "handleAnswer.insert"
             /\ last'.outcome = "ok") =>
            progress' = Append(progress, last'.info)]_vars

\* both tabs have inserted a record for the first question: the table holds
\* two records of the pair, and each tab's list holds the one of its own answer
C18_Witness ==
  /\ Cardinality(ProgressRecords("u1", "q1")) = 2
  /\ \A s \in Sessions :
       /\ edu[s].fetchedFor = "u1"
       /\ Cardinality(LocalRecords(s, "q1")) = 1
       /\ edu[s].answers = <<>>

\* the position in the table of the report with an id
RowOf(id) == CHOOSE i \in 1..Len(reports) : reports[i].id = id

\* C19: when two admin sessions commit updates to the same report, a commit
\* that the backend answers without error is applied whatever the report holds
\* by then and whatever view of it the session prepared the commit from: every
\* field the commit writes takes the commit's value and the other fields keep
\* theirs, so a field written by both commits ends with the value of the one
\* applied last.
C19_LastWriterWins ==
  [][\A s \in Sessions :
       (last'.session = s /\ last'.op = "handleUpdateReport.update"
          /\ last'.outcome = "ok") =>
         LET u == adm[s].update[1]
             i == RowOf(u.id)
         IN /\ \E k \in 1..Len(reports) : reports[k].id = u.id
            /\ Len(reports') = Len(reports)
            /\ \A c \in DOMAIN u.updates : reports'[i][c] = u.updates[c]
            /\ \A c \in (DOMAIN reports[i]) \ (DOMAIN u.updates) :
                 reports'[i][c] = reports[i][c]]_vars

\* both tabs have committed to the report: the first set it to resolved with a
\* remark, the second, prepared from the list fetched before that commit (the
\* tabs fetch it at the start and after their own commit only), set it to
\* rejected and left the remark
C19_Witness ==
  /\ last.op = "handleUpdateReport.update" /\ last.outcome = "ok"
  /\ \A s \in Sessions : adm[s].issued = 1 /\ adm[s].update = <<>>
  /\ last.info.before[1].status = "resolved"
  /\ last.info.before[1].authority_remarks = "a"
  /\ DOMAIN last.info.updates = {"status"}
  /\ reports[1].status = "rejected"
  /\ reports[1].authority_remarks = "a"

\* the four counters of session s are the counts over the list it holds
CountersOfHeldList(s) ==
  LET st == adm[s].stats
      rows == adm[s].reports
  IN /\ st.total = Len(rows)
     /\ st.submitted = Cardinality(RowsWithStatus(rows, {"submitted"}))
     /\ st.in_progress =
          Cardinality(RowsWithStatus(rows, {"in_review", "assigned", "in_progress"}))
     /\ st.resolved = Cardinality(RowsWithStatus(rows, {"resolved"}))

\* the rows of the table that pass the filters of the fetch that has returned
RowsPassing(info) ==
  {i \in 1..Len(reports) :
     /\ info.categoryFilter = "all" \/ reports[i].category = info.categoryFilter
     /\ info.statusFilter = "all" \/ reports[i].status = info.statusFilter}

\* the list held after a fetch is made of the table's rows that pass the
\* filters the fetch was started with
HeldListIsFiltered(s) ==
  (last.session = s /\ last.op = "fetchReports" /\ last.outcome = "ok") =>
    /\ Len(adm[s].reports) = Cardinality(RowsPassing(last.info))
    /\ \A k \in 1..Len(adm[s].reports) :
         \E i \in RowsPassing(last.info) : adm[s].reports[k] = reports[i]

\* a step that changes the search text of s changes neither its counters nor
\* the list it holds
SearchKeepsCounters(s) ==
  adm'[s].searchQuery # adm[s].searchQuery =>
    /\ adm'[s].stats = adm[s].stats
    /\ adm'[s].reports = adm[s].reports

\* C20: in every reachable state of the admin view the four counters are the
\* counts over the list currently held (total is its length); the list held
\* after a fetch with a category or status filter is made of the rows passing
\* the filter, so the counters count only those; a change of the search text
\* changes the displayed rows at most, never the counters.
C20_CountersOverHeldList ==
  /\ [](\A s \in Sessions : CountersOfHeldList(s) /\ HeldListIsFiltered(s))
  /\ [][\A s \in Sessions : SearchKeepsCounters(s)]_vars

\* a filter is active, the held list is shorter than the table, and the
\* search text hides a held row that the counters still count
C20_Witness ==
  \E s \in Sessions :
    /\ AdminShown(s)
    /\ adm[s].categoryFilter # "all" \/ adm[s].statusFilter # "all"
    /\ adm[s].searchQuery # <<>>
    /\ 0 < Len(adm[s].reports) /\ Len(adm[s].reports) < Len(reports)
    /\ Len(filteredReports(adm[s].reports, adm[s].searchQuery)) < Len(adm[s].reports)
    /\ adm[s].stats.total = Len(adm[s].reports)

\* the step taken is the end of a getLocation of session s that got no
\* position: the browser has no geolocation, or the error callback ran
LocationFailed(s) ==
  /\ last'.session = s
  /\ \/ last'.op = "getLocation" /\ last'.outcome = "unsupported"
     \/ last'.op = "getLocation.position" /\ last'.outcome = "error"

\* the step taken is the end of a getLocation of session s whose
\* reverse-geocoding request threw
GeocodingFailed(s) ==
  last'.session = s /\ last'.op = "getLocation.geocode" /\ last'.outcome = "error"

AddressFields == {"address", "city", "state", "pincode"}

\* C21: a getLocation that ends because geolocation is unsupported or the
\* position request fails leaves the form's data (coordinates and address
\* fields) as it was, ends with gettingLocation false and exactly one
\* notification, and leaves the form on screen with its loading and submitted
\* flags as they were, so that typing an address and submitting stay possible.
\* A getLocation whose reverse-geocoding request fails keeps the coordinates
\* the position callback wrote and leaves the address fields as they were.
C21_LocationBestEffort ==
  [][\A s \in Sessions :
       /\ LocationFailed(s) =>
            /\ rn'[s].formData = rn[s].formData
            /\ ~rn'[s].gettingLocation
            /\ Len(last'.toasts) = 1
            /\ page' = page
            /\ rn'[s].loading = rn[s].loading
            /\ rn'[s].submitted = rn[s].submitted
            /\ rn'[s].submit = rn[s].submit
       /\ GeocodingFailed(s) =>
            /\ rn'[s].formData.latitude = rn[s].formData.latitude
            /\ rn'[s].formData.longitude = rn[s].formData.longitude
            /\ \A f \in AddressFields : rn'[s].formData[f] = rn[s].formData[f]
       /\ (last'.session = s /\ last'.op = "getLocation.position"
             /\ last'.outcome = "ok") =>
            /\ rn'[s].formData.latitude = last'.info.latitude
            /\ rn'[s].formData.longitude = last'.info.longitude]_vars

\* a position request has just failed on a form that holds an address typed
\* by hand and the coordinates of an earlier detection; the form is idle, so
\* that typing and submitting are possible
C21_Witness ==
  /\ last.session = "s1" /\ last.op = "getLocation.position" /\ last.outcome = "error"
  /\ rn["s1"].formData.address = "a"
  /\ rn["s1"].formData.latitude # Null
  /\ ~rn["s1"].gettingLocation
  /\ FormIdle("s1")

\* session s is playing a category that has questions
CategoryPlayed(s) ==
  edu[s].selectedCategory # Null /\ Len(CurrentQuizzes(s)) >= 1

\* C22: while a category with at least one question is being played,
\* currentQuizIndex is within 0..(number of its questions - 1).  The index
\* grows only by a handleNext on an answered question that is not the last,
\* and then by one; handleNext on the last question (and only there) leaves
\* quiz mode and starts fetchData; handleStartQuiz leaves the index at 0, no
\* answer selected and no result shown.
C22_IndexInRange ==
  /\ [](\A s \in Sessions :
          CategoryPlayed(s) =>
            edu[s].currentQuizIndex \in 0..(Len(CurrentQuizzes(s)) - 1))
  /\ [][\A s \in Sessions :
          /\ edu'[s].currentQuizIndex > edu[s].currentQuizIndex =>
               /\ last'.session = s /\ last'.op = "handleNext" /\ last'.outcome = "next"
               /\ edu[s].showResult
               /\ edu'[s].currentQuizIndex = edu[s].currentQuizIndex + 1
          /\ (last'.session = s /\ last'.op = "handleNext") =>
               /\ last'.outcome = "finish" <=>
                    edu[s].currentQuizIndex = Len(CurrentQuizzes(s)) - 1
               /\ last'.outcome = "finish" =>
                    /\ edu'[s].selectedCategory = Null
                    /\ edu'[s].loading
                    /\ Len(edu'[s].fetches) = Len(edu[s].fetches) + 1
          /\ (last'.session = s /\ last'.op = "handleStartQuiz") =>
               /\ edu'[s].selectedCategory # Null
               /\ edu'[s].currentQuizIndex = 0
               /\ edu'[s].selectedAnswer = NoAnswer
               /\ ~edu'[s].showResult]_vars

\* a category is started again after a round that ended on its last question:
\* the index left at 1 by the round is back at 0
C22_Witness ==
  /\ last.session = "s1" /\ last.op = "handleStartQuiz"
  /\ edu["s1"].currentQuizIndex = 0
  /\ \E p \in Range(edu["s1"].userProgress) : p.quiz_id = "q2"

\* the step taken is a handleAnswer call of session s made while the result of
\* its question was shown
AnswerCalledAgain(s) ==
  last'.session = s /\ last'.op = "handleAnswer" /\ edu[s].showResult

\* C23: once the result of the current question is shown, a further
\* handleAnswer call changes nothing: the page's state (the selected answer
\* included) and the progress table stay as they are, no insert is started
\* and no notification is shown.  While the result is shown the selected
\* answer changes only by handleNext or handleStartQuiz, and no call starts
\* an insert.
C23_AnswerOnce ==
  [][\A s \in Sessions :
       /\ AnswerCalledAgain(s) =>
            /\ edu'[s] = edu[s]
            /\ progress' = progress
            /\ last'.toasts = <<>>
       /\ edu[s].showResult =>
            /\ edu'[s].selectedAnswer # edu[s].selectedAnswer =>
                 (last'.session = s /\ last'.op \in {"handleNext", "handleStartQuiz"})
            /\ Len(edu'[s].answers) <= Len(edu[s].answers)]_vars

\* a call with the other option has come while the result of a wrong first
\* answer was shown, after the first answer's record was inserted: the first
\* answer is still the selected one
C23_Witness ==
  /\ last.session = "s1" /\ last.op = "handleAnswer" /\ last.outcome = "returned"
  /\ edu["s1"].showResult
  /\ edu["s1"].selectedAnswer # last.info
  /\ edu["s1"].selectedAnswer # NoAnswer
  /\ edu["s1"].answers = <<>>
  /\ Len(progress) = 1

\* C24: whatever reports have been submitted and whatever updates the admins
\* have committed, every report of the table whose status is resolved has a
\* resolution timestamp (resolved_at is not null).
C24_ResolvedIsStamped ==
  \A i \in 1..Len(reports) :
    reports[i].status = "resolved" => reports[i].resolved_at # Null

\* the report the citizen has submitted in this run has been resolved by the
\* admin's update
C24_Witness ==
  /\ rn["s1"].submitted
  /\ last.op = "handleUpdateReport.update" /\ last.outcome = "ok"
  /\ Len(last.info.before) = 1 /\ last.info.before[1].status = "submitted"
  /\ reports[1].status = "resolved"

\* every fetch session s has issued has completed, the one that arrived last
\* without an error
FetchesSettled(s) ==
  /\ last.session = s /\ last.op = "fetchReports" /\ last.outcome = "ok"
  /\ adm[s].fetches = <<>>

\* the list and the counters a fetch with the selected filters gives
SelectedList(s) == ReportsQuery(reports, adm[s].categoryFilter, adm[s].statusFilter)

\* C25: once all the report-list fetches a session has issued have completed,
\* in whatever order, the held list and the counters are those of the fetch
\* for the filters selected now.
C25_ListOfSelectedFilters ==
  \A s \in Sessions :
    FetchesSettled(s) =>
      /\ adm[s].reports = SelectedList(s)
      /\ adm[s].stats.total = Len(SelectedList(s))

\* every FileReader started for session s has called back
PreviewsLoaded(s) == rn[s].reading = {}

\* C26: the selected-file list never exceeds 5 entries, and once all pending
\* preview loads have completed the preview list is as long as the file list
\* and holds at each index the preview of the file at that index (the preview
\* of a file is written as the file), so that removing index i removes a file
\* together with its own preview.
C26_PreviewsMatchFiles ==
  \A s \in Sessions :
    /\ Len(rn[s].images) <= MaxImages
    /\ PreviewsLoaded(s) => rn[s].imagePreviewUrls = rn[s].images

\* the step taken last is the end of a handleAnswer of session s that awaited
\* its insert, for the user who is signed in
AnswerCompleted(s) ==
  /\ last.session = s /\ last.op = "handleAnswer.insert"
  /\ last.info.user_id = auth[s].user

\* C27: when a handleAnswer of a signed-in user has completed, every record
\* of the local progress list has a record of the same (user, quiz) pair in
\* the backend table; a failed insert leaves no record in the local list.
C27_LocalRecordsAreStored ==
  \A s \in Sessions :
    AnswerCompleted(s) =>
      \A p \in Range(edu[s].userProgress) :
        ProgressRecords(auth[s].user, p.quiz_id) # {}

\* the leaderboard of session s has finished loading for a signed-in user
LeaderboardLoadedFor(s) ==
  /\ page[s] = "leaderboard"
  /\ ~auth[s].loading /\ auth[s].user # NoUser
  /\ ~lb[s].loading /\ lb[s].fetches = <<>>

\* C28: whenever the leaderboard has finished loading for a signed-in user,
\* the rank and points of Your Stats are the position (from 1) and the points
\* of the user's entry in the held leaderboard, and the rank is null (shown as
\* Unranked) when the held leaderboard has no entry for the user.
C28_StatsOfCurrentUser ==
  \A s \in Sessions :
    LeaderboardLoadedFor(s) =>
      LET pos == FindPosition(lb[s].leaderboard, auth[s].user)
      IN IF pos # 0
         THEN /\ lb[s].userRank = pos
              /\ lb[s].userPoints = lb[s].leaderboard[pos].points
         ELSE lb[s].userRank = 0

\* Your Reports is on display to a signed-in user: {user && ...} and not the
\* spinner of loadingUserReports
YourReportsShown(s) ==
  /\ page[s] = "track"
  /\ ~auth[s].loading
  /\ auth[s].user # NoUser
  /\ ~trk[s].loadingUserReports

\* C29: whenever Your Reports is displayed to a signed-in user and is not
\* loading, every report in it is owned by that user and the list is ordered
\* newest first, also after the signed-in user changed and after a failed
\* fetch of the user's reports
C29_YourReportsAreOwn ==
  \A s \in Sessions :
    YourReportsShown(s) =>
      /\ \A i \in 1..Len(trk[s].userReports) :
           trk[s].userReports[i].user_id = auth[s].user
      /\ \A i, j \in 1..Len(trk[s].userReports) :
           i < j => trk[s].userReports[i].id > trk[s].userReports[j].id

\* the busy flags of the page a session has open
ReportBusy(s) == page[s] = "report" /\ rn[s].loading
UpdateBusy(s) == page[s] = "admin" /\ adm[s].updating
AdminListBusy(s) == page[s] = "admin" /\ adm[s].loading /\ adm[s].fetches # <<>>
UserReportsBusy(s) == page[s] = "track" /\ trk[s].loadingUserReports
SearchBusy(s) == page[s] = "track" /\ trk[s].loading
ContactBusy(s) == page[s] = "contact" /\ ct[s].loading
QuizDataBusy(s) == page[s] = "education" /\ edu[s].loading
LeaderboardBusy(s) == page[s] = "leaderboard" /\ lb[s].loading

\* C30: if every backend request eventually completes, with success or with
\* an error, every busy flag an operation has set (report submit, admin
\* update, admin list, Your Reports, tracking search, contact, quiz data,
\* leaderboard) is eventually false again on the page that holds it
C30_BusyFlagsReset ==
  \A s \in Sessions :
    /\ ReportBusy(s) ~> ~ReportBusy(s)
    /\ UpdateBusy(s) ~> ~UpdateBusy(s)
    /\ AdminListBusy(s) ~> ~AdminListBusy(s)
    /\ UserReportsBusy(s) ~> ~UserReportsBusy(s)
    /\ SearchBusy(s) ~> ~SearchBusy(s)
    /\ ContactBusy(s) ~> ~ContactBusy(s)
    /\ QuizDataBusy(s) ~> ~QuizDataBusy(s)
    /\ LeaderboardBusy(s) ~> ~LeaderboardBusy(s)

\* a request has just failed and the flag its operation had set is false
\* again: here the tracking search
C30_Witness ==
  /\ last.op = "searchReport.query"
  /\ last.outcome = "error"
  /\ page[last.session] = "track"
  /\ ~trk[last.session].loading

=============================================================================
